---- MODULE Spec2Model ----
(***************************************************************************)
(* A model of drf_json_api_utils/factory.py: the two view builders         *)
(* (JsonApiModelViewBuilder, JsonApiResourceViewBuilder), what get_urls()  *)
(* generates from them, and the request handlers of the generated views.   *)
(*                                                                         *)
(* Python strings that the code parses (query-string keys and values) are  *)
(* sequences of one-character strings; strings the code only stores or     *)
(* compares are TLA+ strings.  None is NoneValue for parsed values, the    *)
(* string "None" for callbacks and names, and a `null` flag elsewhere.     *)
(***************************************************************************)
EXTENDS Integers, Sequences, FiniteSets, TLC

VARIABLES
    builder,          \* the JsonApiModelViewBuilder instance (self)
    serializers,      \* every _construct_serializer call made so far, in order
    registered,       \* history: the settings as the configuration calls gave them
    outcome,          \* the last call on the model builder and whether it raised
    resource,         \* the JsonApiResourceViewBuilder instance (self)
    views,            \* the view classes of the last resource get_urls()
    request,          \* the last request served by a generated resource view
    response,         \* what the handler of that request did
    log,              \* the LOGGER.warning calls of the last builder call
    model_views,      \* the view classes and routes of the last model get_urls()
    events,           \* what the handler of a model view request did, in order
    probe             \* a module-level function applied to arguments: the call and its result

model_vars == <<builder, serializers, registered, outcome>>
resource_vars == <<resource, views, request, response>>
other_vars == <<log, model_views, events, probe>>
vars == <<builder, serializers, registered, outcome, resource, views, request, response,
          log, model_views, events, probe>>

\* nothing logged, generated, served or applied yet
NoModelViews ==
    [built |-> FALSE, raised |-> FALSE, classes |-> <<>>, urls |-> <<>>,
     builds |-> <<>>, copies |-> <<>>]
NoInputs == [raises |-> "none", returns |-> "given", paginated |-> FALSE]
NoEvents ==
    [served |-> FALSE, handler |-> "", configured |-> {}, inputs |-> NoInputs,
     trace |-> <<>>, data |-> <<>>]
NoProbe == [fn |-> "", args |-> <<>>, out |-> <<>>]
Unobserved ==
    /\ log = <<>> /\ model_views = NoModelViews
    /\ events = NoEvents /\ probe = NoProbe

(***************************************************************************)
(* Bounds of the model.                                                    *)
(***************************************************************************)
MaxMethods == 2       \* length of an allowed_methods list given to the model builder
MaxConfigCalls == 3   \* field / relation registrations on one model builder
MaxBuilds == 2        \* get_urls() calls on one model builder
MaxPrefixLen == 3     \* length of a urls_prefix given to get_urls()
MaxNesting == 2       \* nesting depth of _build calls the model follows
MaxValLen == 2        \* length of a query-string value
MaxCount == 4         \* item count an on_list callback reports
MaxPageSize == 2      \* page_size given to the resource builder

(***************************************************************************)
(* json_api_spec_http_methods and lookups: modules of the package that     *)
(* factory.py imports (lines 25-30).                                       *)
(***************************************************************************)
HTTP_GET == "GET"
HTTP_POST == "POST"
HTTP_PATCH == "PATCH"
HTTP_DELETE == "DELETE"
HTTP_ALL == <<HTTP_GET, HTTP_POST, HTTP_PATCH, HTTP_DELETE>>
HTTP_ACTIONS == <<HTTP_GET, HTTP_POST, HTTP_PATCH, HTTP_DELETE>>
\* a name that is no method of HTTP_ALL, as a caller may pass it
\* method.lower(), for the four methods
HttpName(method) ==
    IF method = HTTP_GET THEN "get" ELSE IF method = HTTP_POST THEN "post"
    ELSE IF method = HTTP_PATCH THEN "patch" ELSE "delete"

INVALID_METHOD == "FETCH"
MethodInputs == {HTTP_GET, HTTP_DELETE, INVALID_METHOD}

EXACT == "exact"
LOOKUP_IN == "in"
LOOKUPS_ALL == {"exact", "in", "lt", "lte", "gt", "gte"}

(***************************************************************************)
(* Sequences.                                                              *)
(***************************************************************************)
SeqsUpTo(S, n) == UNION {[1..k -> S] : k \in 0..n}

Range(s) == {s[i] : i \in DOMAIN s}

(***************************************************************************)
(* Python values that reach a callback: str, int or None.                  *)
(***************************************************************************)
PyStr(s) == [t |-> "str", s |-> s, n |-> 0]
PyInt(n) == [t |-> "int", s |-> <<>>, n |-> n]
NoneValue == [t |-> "none", s |-> <<>>, n |-> 0]

(***************************************************************************)
(* Characters.                                                             *)
(***************************************************************************)
UpperLetters == <<"A", "B", "C", "D", "E", "F", "G", "H", "I", "J", "K", "L", "M",
                  "N", "O", "P", "Q", "R", "S", "T", "U", "V", "W", "X", "Y", "Z">>
LowerLetters == <<"a", "b", "c", "d", "e", "f", "g", "h", "i", "j", "k", "l", "m",
                  "n", "o", "p", "q", "r", "s", "t", "u", "v", "w", "x", "y", "z">>
DecimalDigits == <<"1", "2", "3", "4", "5", "6", "7", "8", "9">>

Lower(c) ==
    IF \E i \in DOMAIN UpperLetters : UpperLetters[i] = c
    THEN LowerLetters[CHOOSE i \in DOMAIN UpperLetters : UpperLetters[i] = c]
    ELSE c

\* the class [\w_\-] of FILTER_REGEX
WordChar(c) ==
    c \in Range(UpperLetters) \cup Range(LowerLetters) \cup Range(DecimalDigits)
          \cup {"0", "_", "-"}

IsDigit(c) == c \in Range(DecimalDigits)

DigitValue(c) == CHOOSE i \in DOMAIN DecimalDigits : DecimalDigits[i] = c

(***************************************************************************)
(* ast.literal_eval(value), for texts over ValueChars: digits without a    *)
(* zero, a letter, the quote and the minus sign.  Over these characters    *)
(* the Python literals are the decimal integers, the negated decimal       *)
(* integers and the single-quoted strings; every other text raises         *)
(* ValueError or SyntaxError.                                              *)
(***************************************************************************)
ValueChars == {"1", "2", "a", "'", "-"}

RECURSIVE DecimalValue(_)
DecimalValue(s) ==
    IF Len(s) = 0 THEN 0
    ELSE 10 * DecimalValue(SubSeq(s, 1, Len(s) - 1)) + DigitValue(s[Len(s)])

AllDigits(s) == Len(s) > 0 /\ \A i \in DOMAIN s : IsDigit(s[i])

literal_eval(s) ==
    IF AllDigits(s)
    THEN [ok |-> TRUE, value |-> PyInt(DecimalValue(s))]
    ELSE IF Len(s) > 1 /\ s[1] = "-" /\ AllDigits(Tail(s))
    THEN [ok |-> TRUE, value |-> PyInt(0 - DecimalValue(Tail(s)))]
    ELSE IF Len(s) > 1 /\ s[1] = "'" /\ s[Len(s)] = "'"
            /\ \A i \in 2..(Len(s) - 1) : s[i] # "'"
    THEN [ok |-> TRUE, value |-> PyStr(SubSeq(s, 2, Len(s) - 1))]
    ELSE [ok |-> FALSE, value |-> NoneValue]

\* an evaluation that keeps nothing of the text when literal_eval raises
EvaluatedNoFallback(raw) == literal_eval(raw).value

\* lines 661-664: try: value = ast.literal_eval(value) / except: pass
Evaluated(raw) ==
    IF literal_eval(raw).ok THEN literal_eval(raw).value ELSE PyStr(raw)

\* int(text) on line 669, for the same texts: an optional minus sign and digits
int(s) ==
    IF AllDigits(s) THEN [ok |-> TRUE, n |-> DecimalValue(s)]
    ELSE IF Len(s) > 1 /\ s[1] = "-" /\ AllDigits(Tail(s))
    THEN [ok |-> TRUE, n |-> 0 - DecimalValue(Tail(s))]
    ELSE [ok |-> FALSE, n |-> 0]

\* str.split(','), line 671
RECURSIVE split(_)
split(s) ==
    IF \E i \in DOMAIN s : s[i] = ","
    THEN LET i == CHOOSE j \in DOMAIN s : s[j] = "," /\ \A k \in 1..(j - 1) : s[k] # ","
         IN <<SubSeq(s, 1, i - 1)>> \o split(SubSeq(s, i + 1, Len(s)))
    ELSE <<s>>

(***************************************************************************)
(* FILTER_REGEX and FILTER_MAP.                                            *)
(***************************************************************************)
FILTER_MAP_ITEMS ==
    {
      <<<<"i", "s", "_", "n", "u", "l", "l">>, "is_null">>,
      <<<<"i", "s", "_", "n", "o", "t", "_", "n", "u", "l", "l">>, "is_not_null">>,
      <<<<"e", "q">>, "==">>,
      <<<<"n", "e">>, "!=">>,
      <<<<"g", "t">>, ">">>,
      <<<<"l", "t">>, "<">>,
      <<<<"g", "t", "e">>, ">=">>,
      <<<<"g", "l", "e">>, "<=">>,
      <<<<"c", "o", "n", "t", "a", "i", "n", "s">>, "like">>,
      <<<<"i", "c", "o", "n", "t", "a", "i", "n", "s">>, "ilike">>,
      <<<<"n", "o", "t", "_", "i", "c", "o", "n", "t", "a", "i", "n", "s">>, "not_ilike">>,
      <<<<"n", "o", "t", "_", "c", "o", "n", "t", "a", "i", "n", "s">>, "not_like">>,
      <<<<"i", "n">>, "in">>,
      <<<<"n", "o", "t", "_", "i", "n">>, "not_in">>,
      <<<<"a", "n", "y">>, "any">>,
      <<<<"n", "o", "t", "_", "a", "n", "y">>, "not_any">>
    }

FILTER_MAP ==
    [k \in {p[1] : p \in FILTER_MAP_ITEMS} |->
        (CHOOSE p \in FILTER_MAP_ITEMS : p[1] = k)[2]]

\* a group of a match: None, or the text it matched
NoGroup == [some |-> FALSE, s |-> <<>>]
Group(s) == [some |-> TRUE, s |-> s]

\* FILTER_MAP.get(match.groupdict()['op'], '=='), line 667
FilterOp(op) ==
    IF op.some /\ op.s \in DOMAIN FILTER_MAP THEN FILTER_MAP[op.s] ELSE "=="

\* the end of the longest run of [\w_\-] characters of key that starts at i
\* (i - 1 when key[i] is no such character)
RunEnd(key, i) ==
    CHOOSE j \in (i - 1)..Len(key) :
        /\ \A p \in i..j : WordChar(key[p])
        /\ j = Len(key) \/ ~WordChar(key[j + 1])

FILTER_PREFIX == <<"f", "i", "l", "t", "e", "r", "[">>

(***************************************************************************)
(* FILTER_REGEX.match(key): filter\[(?P<field>[\w_\-]+)(?P<op>\.[\w_\-]+)?\] *)
(* anchored at the start of key, ignoring case.  Neither '.' nor ']' is in *)
(* the character class, so each group can only be the whole run of class   *)
(* characters at its place: a shorter one leaves a class character where   *)
(* '.' or ']' must follow.                                                 *)
(***************************************************************************)
NoMatch == [matched |-> FALSE, field |-> <<>>, op |-> NoGroup]

FILTER_REGEX_match(key) ==
    IF ~(/\ Len(key) > Len(FILTER_PREFIX)
         /\ \A i \in DOMAIN FILTER_PREFIX : Lower(key[i]) = FILTER_PREFIX[i])
    THEN NoMatch
    ELSE LET f == Len(FILTER_PREFIX) + 1
             j == RunEnd(key, f)
             k == RunEnd(key, j + 2)
         IN IF j < f \/ j = Len(key) THEN NoMatch
            ELSE IF key[j + 1] = "]"
            THEN [matched |-> TRUE, field |-> SubSeq(key, f, j), op |-> NoGroup]
            ELSE IF key[j + 1] = "." /\ k >= j + 2 /\ k < Len(key) /\ key[k + 1] = "]"
            THEN [matched |-> TRUE, field |-> SubSeq(key, f, j),
                  op |-> Group(SubSeq(key, j + 1, k))]
            ELSE NoMatch

(***************************************************************************)
(* Dictionaries with string keys are sets of <<key, value>> pairs.         *)
(***************************************************************************)
HasKey(d, k) == \E p \in d : p[1] = k

Get(d, k) == (CHOOSE p \in d : p[1] = k)[2]

\* an optional integer: None, or the integer
NoInt == [null |-> TRUE, v |-> 0]
SomeInt(v) == [null |-> FALSE, v |-> v]

(***************************************************************************)
(* get_dict_by_methods(view_type, allowed_http_methods), lines 55-72.      *)
(* allowed_http_methods is a list; only membership is asked of it.         *)
(***************************************************************************)
\* a routing that does not look at the allowed methods
get_dict_by_methods_unfiltered(view_type, allowed_http_methods) ==
    IF view_type = "get"
    THEN {<<"get", "retrieve">>, <<"patch", "update">>, <<"delete", "destroy">>}
    ELSE IF view_type = "list" THEN {<<"get", "list">>, <<"post", "create">>}
    ELSE IF view_type = "relation" THEN {<<"get", "retrieve_related">>}
    ELSE {}

get_dict_by_methods(view_type, allowed_http_methods) ==
    LET allowed == Range(allowed_http_methods)
    IN  IF view_type = "get"
        THEN (IF HTTP_GET \in allowed THEN {<<"get", "retrieve">>} ELSE {})
             \cup (IF HTTP_PATCH \in allowed THEN {<<"patch", "update">>} ELSE {})
             \cup (IF HTTP_DELETE \in allowed THEN {<<"delete", "destroy">>} ELSE {})
        ELSE IF view_type = "list"
        THEN (IF HTTP_GET \in allowed THEN {<<"get", "list">>} ELSE {})
             \cup (IF HTTP_POST \in allowed THEN {<<"post", "create">>} ELSE {})
        ELSE IF view_type = "relation"
        THEN (IF HTTP_GET \in allowed THEN {<<"get", "retrieve_related">>} ELSE {})
        ELSE {}

(***************************************************************************)
(* JsonApiResourceViewBuilder, lines 559-624.                              *)
(***************************************************************************)
NoResource ==
    [constructed |-> FALSE, allowed_methods |-> <<>>, resource_name |-> "None",
     raw_items |-> FALSE, unique_identifier |-> "id",
     on_create_callback |-> "None", on_update_callback |-> "None",
     on_delete_callback |-> "None", on_list_callback |-> "None",
     on_get_callback |-> "None", before_raw_response |-> "None",
     is_admin |-> FALSE, page_size |-> 0, only_callbacks |-> FALSE]

\* a constructor that stores the raw_items argument as it is given
JsonApiResourceViewBuilderRawAsGiven(action_name, allowed_methods, raw_items, only_callbacks, page_size) ==
    [constructed |-> TRUE, allowed_methods |-> allowed_methods,
     resource_name |-> action_name, raw_items |-> raw_items,
     unique_identifier |-> "id",
     on_create_callback |-> "None", on_update_callback |-> "None",
     on_delete_callback |-> "None", on_list_callback |-> "None",
     on_get_callback |-> "None", before_raw_response |-> "None",
     is_admin |-> FALSE, page_size |-> page_size, only_callbacks |-> only_callbacks]

\* __init__, lines 560-587: allowed_methods is copied as given; line 573 stores
\* the negation of the raw_items argument
JsonApiResourceViewBuilder(action_name, allowed_methods, raw_items, only_callbacks, page_size) ==
    [constructed |-> TRUE, allowed_methods |-> allowed_methods,
     resource_name |-> action_name, raw_items |-> ~raw_items,
     unique_identifier |-> "id",
     on_create_callback |-> "None", on_update_callback |-> "None",
     on_delete_callback |-> "None", on_list_callback |-> "None",
     on_get_callback |-> "None", before_raw_response |-> "None",
     is_admin |-> FALSE, page_size |-> page_size, only_callbacks |-> only_callbacks]

\* the method lists a resource builder is constructed with
ResourceMethodInputs ==
    {HTTP_ACTIONS, <<HTTP_GET>>, <<HTTP_POST>>,
     <<HTTP_GET, INVALID_METHOD>>, <<INVALID_METHOD>>}

Callbacks == {"cb1"}
CallbackInputs == Callbacks \cup {"None"}

\* (a behaviour follows one builder: the other one is never constructed)
ConstructResource ==
    /\ ~resource.constructed /\ ~builder.constructed
    /\ \E allowed_methods \in ResourceMethodInputs, raw_items \in BOOLEAN,
          only_callbacks \in BOOLEAN, page_size \in 0..MaxPageSize :
          resource' = JsonApiResourceViewBuilder("res", allowed_methods, raw_items,
                                                 only_callbacks, page_size)
    /\ UNCHANGED <<views, request, response>>
    /\ UNCHANGED model_vars /\ UNCHANGED other_vars

\* A behaviour of the resource builder ends with the one request it serves:
\* the handlers keep no state, so a second request shows nothing new.
Unserved == response.kind = "idle"

\* a check of the allowed methods that logs nothing
warn_nothing(self, method) == <<>>

\* __warn_if_method_not_available, lines 133-137 and 589-593 (the same code
\* in both builder classes): the warnings it logs
__warn_if_method_not_available(self, method) ==
    IF method \notin Range(self.allowed_methods) THEN <<"warning">> ELSE <<>>

\* what a lifecycle setter of the resource builder leaves besides the callback
ResourceSetterDone(op, callback, method) ==
    /\ resource.constructed /\ Unserved
    /\ outcome' = [op |-> op, raised |-> FALSE, allowed_methods |-> <<>>,
                   name |-> callback, field |-> "", lookups |-> [isNone |-> TRUE, items |-> <<>>]]
    /\ log' = __warn_if_method_not_available(resource, method)
    /\ UNCHANGED <<views, request, response>>
    /\ UNCHANGED <<builder, serializers, registered, model_views, events, probe>>

\* on_create, lines 595-599
on_create ==
    \E create_callback \in CallbackInputs :
        /\ resource' = [resource EXCEPT !.on_create_callback = create_callback]
        /\ ResourceSetterDone("on_create", create_callback, HTTP_POST)

\* on_update, lines 601-604
on_update ==
    \E update_callback \in CallbackInputs :
        /\ resource' = [resource EXCEPT !.on_update_callback = update_callback]
        /\ ResourceSetterDone("on_update", update_callback, HTTP_PATCH)

\* on_delete, lines 606-609
on_delete ==
    \E delete_callback \in CallbackInputs :
        /\ resource' = [resource EXCEPT !.on_delete_callback = delete_callback]
        /\ ResourceSetterDone("on_delete", delete_callback, HTTP_DELETE)

\* on_list, lines 611-615
on_list ==
    \E list_callback \in CallbackInputs :
        /\ resource' = [resource EXCEPT !.on_list_callback = list_callback]
        /\ ResourceSetterDone("on_list", list_callback, HTTP_GET)

\* on_get, lines 617-620
on_get ==
    \E get_callback \in CallbackInputs :
        /\ resource' = [resource EXCEPT !.on_get_callback = get_callback]
        /\ ResourceSetterDone("on_get", get_callback, HTTP_GET)

(***************************************************************************)
(* JsonApiResourceViewBuilder._build, lines 716-788: the two view classes  *)
(* and the routes.  A handler attribute of a view class is the handler or  *)
(* None, decided when the class is made (lines 730-732, 751-752).         *)
(* ViewSet.as_view of the host framework raises TypeError for an empty     *)
(* action map.  at_build is history: the configuration get_urls() saw.     *)
(***************************************************************************)
NoViews ==
    [built |-> FALSE, raised |-> FALSE,
     get_view_set |-> [exists |-> FALSE, list |-> FALSE, create |-> FALSE],
     patch_view_set |-> [exists |-> FALSE, update |-> FALSE, destroy |-> FALSE,
                         get |-> FALSE],
     urls |-> <<>>, at_build |-> NoResource]

Truthy(callback) == callback # "None"

ResourceBuild(self) ==
    LET patch_exists ==
            \/ Truthy(self.on_update_callback) \/ Truthy(self.on_delete_callback)
            \/ Truthy(self.on_get_callback) \/ ~self.only_callbacks
        get_exists ==
            \/ Truthy(self.on_list_callback) \/ Truthy(self.on_create_callback)
            \/ ~self.only_callbacks
        list_dict == get_dict_by_methods("list", self.allowed_methods)
        get_dict == get_dict_by_methods("get", self.allowed_methods)
        view_dict ==
            IF HasKey(get_dict, "get")
            THEN (get_dict \ {<<"get", "retrieve">>}) \cup {<<"get", "get">>}
            ELSE get_dict
    IN  [built |-> TRUE,
         raised |-> (get_exists /\ list_dict = {}) \/ (patch_exists /\ view_dict = {}),
         get_view_set |-> [exists |-> get_exists,
                           list |-> Truthy(self.on_list_callback),
                           create |-> Truthy(self.on_create_callback)],
         patch_view_set |-> [exists |-> patch_exists,
                             update |-> Truthy(self.on_update_callback),
                             destroy |-> Truthy(self.on_delete_callback),
                             get |-> Truthy(self.on_get_callback)],
         urls |-> (IF get_exists THEN <<[route |-> "list", actions |-> list_dict]>>
                   ELSE <<>>)
                  \o (IF patch_exists
                      THEN <<[route |-> "detail", actions |-> view_dict]>> ELSE <<>>),
         at_build |-> self]

\* get_urls(), lines 790-793.  A call that raises returns no views: the ones
\* generated before stay as they are.
ResourceGetUrls ==
    /\ resource.constructed /\ Unserved
    /\ views' = IF ResourceBuild(resource).raised
                THEN [views EXCEPT !.raised = TRUE]
                ELSE ResourceBuild(resource)
    /\ UNCHANGED <<resource, request, response>>
    /\ UNCHANGED model_vars /\ UNCHANGED other_vars

(***************************************************************************)
(* The list handler _list(view, request), lines 656-693.                   *)
(*   params: request.query_params, a sequence of <<key, value>> pairs with *)
(*           distinct keys, in the order items() yields them;              *)
(*   result: what the on_list callback returns when it is called,          *)
(*           (data, included, count, status).                              *)
(* A dict item of `data` is a set of <<key, integer>> pairs; a list that   *)
(* may be None carries an isNone flag.                                     *)
(***************************************************************************)
S_page_number == <<"p", "a", "g", "e", "_", "n", "u", "m", "b", "e", "r">>
S_include == <<"i", "n", "c", "l", "u", "d", "e">>

ParamHas(params, key) == \E i \in DOMAIN params : params[i][1] = key

ParamGet(params, key) == params[CHOOSE i \in DOMAIN params : params[i][1] = key][2]

\* a loop that stops after the first parameter
FiltersFirstOnly(params) ==
    IF params # <<>> /\ FILTER_REGEX_match(Head(params)[1]).matched
    THEN <<[field |-> FILTER_REGEX_match(Head(params)[1]).field,
            op |-> FilterOp(FILTER_REGEX_match(Head(params)[1]).op),
            value |-> Evaluated(Head(params)[2])]>>
    ELSE <<>>

\* lines 658-668: one entry for each parameter whose key matches
RECURSIVE Filters(_)
Filters(params) ==
    IF params = <<>> THEN <<>>
    ELSE LET key == Head(params)[1]
             value == Evaluated(Head(params)[2])
             match == FILTER_REGEX_match(key)
         IN (IF match.matched
             THEN <<[field |-> match.field, op |-> FilterOp(match.op), value |-> value]>>
             ELSE <<>>) \o Filters(Tail(params))

\* the page count rounded down instead of up
PagesFloor(count, page_size) == count \div page_size

\* line 675: math.ceil(count / self._page_size), for count >= 0 and page_size >= 1
\* (the quotient of integers this small is exact in floating point)
Pages(count, page_size) ==
    IF count % page_size = 0 THEN count \div page_size ELSE count \div page_size + 1

NoLink == [null |-> TRUE, resource |-> "", page_number |-> 0]
\* f"/api/{self._resource_name}?page_number={n}"
Link(resource_name, n) == [null |-> FALSE, resource |-> resource_name, page_number |-> n]

\* lines 676-681
Links(resource_name, page, pages) ==
    [first |-> Link(resource_name, 1),
     last |-> Link(resource_name, pages),
     next |-> IF page = pages \/ pages <= 1 THEN NoLink
              ELSE Link(resource_name, page + 1),
     previous |-> IF page <= 1 THEN NoLink ELSE Link(resource_name, page - 1)]

\* lines 681-684: item.get(self._unique_identifier, None) and the wrapping
ResourceObject(self, item) ==
    IF self.raw_items
    THEN [wrapped |-> TRUE,
          id |-> IF HasKey(item, self.unique_identifier)
                 THEN SomeInt(Get(item, self.unique_identifier)) ELSE NoInt,
          type |-> self.resource_name, attributes |-> item]
    ELSE [wrapped |-> FALSE, id |-> NoInt, type |-> "", attributes |-> item]

NoneList == [isNone |-> TRUE, items |-> <<>>]
List(items) == [isNone |-> FALSE, items |-> items]

\* the callback's `included` passed on untouched
IncludedAsGiven(included) == included

\* line 685: included if included else []
Included(included) ==
    IF ~included.isNone /\ included.items # <<>> THEN included ELSE List(<<>>)

NoCall == [page |-> 0, filters |-> <<>>, includes |-> <<>>]
NoBody == [none |-> TRUE]

\* what a handler did: raised, returned None, or returned a Response
Raised(exc, called, call) ==
    [kind |-> "exception", exc |-> exc, called |-> called, call |-> call,
     status |-> 0, body |-> NoBody]
ReturnedNone ==
    [kind |-> "none", exc |-> "", called |-> "None", call |-> NoCall,
     status |-> 0, body |-> NoBody]
Response(called, call, status, body) ==
    [kind |-> "response", exc |-> "", called |-> called, call |-> call,
     status |-> status, body |-> body]
NoResponse ==
    [kind |-> "idle", exc |-> "", called |-> "None", call |-> NoCall,
     status |-> 0, body |-> NoBody]

_list(self, params, result) ==
    LET filters == Filters(params)
        page_text == IF ParamHas(params, S_page_number)
                     THEN int(ParamGet(params, S_page_number))
                     ELSE [ok |-> TRUE, n |-> 1]
        page == page_text.n
        include == IF ParamHas(params, S_include) THEN ParamGet(params, S_include)
                   ELSE <<>>
        includes == IF include # <<>> THEN split(include) ELSE <<>>
        call == [page |-> page, filters |-> filters, includes |-> includes]
        pages == Pages(result.count, self.page_size)
    IN  IF ~page_text.ok THEN Raised("ValueError", "None", NoCall)
        ELSE IF self.on_list_callback = "None" THEN ReturnedNone
        ELSE IF self.page_size = 0
        THEN Raised("ZeroDivisionError", self.on_list_callback, call)
        ELSE Response(self.on_list_callback, call, result.status,
                 [links |-> Links(self.resource_name, page, pages),
                  data |-> [i \in DOMAIN result.data |->
                               ResourceObject(self, result.data[i])],
                  included |-> Included(result.included),
                  meta |-> [pagination |->
                               [page |-> page, pages |-> pages, count |-> result.count]]])

(***************************************************************************)
(* The requests the model serves: query-string keys and values, and what   *)
(* the on_list callback answers.                                           *)
(***************************************************************************)
S_age == <<"a", "g", "e">>
S_f_1 == <<"f", "-", "1">>
S_eq == <<"e", "q">>
S_gt == <<"g", "t">>
FieldNames == {S_age, S_f_1}
\* every key of FILTER_MAP, and an operator the table does not have
OpNames == DOMAIN FILTER_MAP \cup {<<"z", "z">>}

KeyOf(field, op) == FILTER_PREFIX \o field \o <<".">> \o op \o <<"]">>
KeyNoOp(field) == FILTER_PREFIX \o field \o <<"]">>

OtherKeys ==
    {S_page_number, S_include,
     FILTER_PREFIX \o <<"]">>,
     FILTER_PREFIX \o S_age \o <<".", "]">>,
     FILTER_PREFIX \o S_age \o <<".">> \o S_eq,
     FILTER_PREFIX \o S_age \o <<".">> \o S_eq \o <<".">> \o S_gt \o <<"]">>,
     <<"x">> \o KeyOf(S_age, S_eq),
     KeyOf(S_age, S_gt) \o <<"x">>,
     <<"F", "I", "L", "T", "E", "R", "[">> \o S_age \o <<".", "G", "T", "]">>}

KeyInputs ==
    {KeyOf(f, o) : f \in FieldNames, o \in OpNames}
        \cup {KeyNoOp(f) : f \in FieldNames} \cup OtherKeys

Values == SeqsUpTo(ValueChars, MaxValLen)

ItemA == {<<"id", 7>>, <<"name", 1>>}
ItemB == {<<"name", 2>>}
DataInputs == {<<>>, <<ItemA>>, <<ItemB, ItemA>>}
IncludedInputs == {NoneList, List(<<>>), List(<<ItemB>>)}
StatusInputs == {200, 404}

DefaultResult == [data |-> <<ItemA>>, included |-> NoneList, count |-> 1, status |-> 200]

NoRequest == [params |-> <<>>, result |-> DefaultResult]

ListInputs ==
    \* every key, with a value that is a literal
    {[params |-> <<<<k, <<"1">>>>>>, result |-> DefaultResult] : k \in KeyInputs}
    \* every value, under a filter key and an unrelated key
    \cup {[params |-> <<<<k, v>>>>, result |-> DefaultResult] :
             k \in {KeyOf(S_age, S_gt), S_include}, v \in Values}
    \* every page_number text (or none) with every count
    \cup {[params |-> p, result |-> [DefaultResult EXCEPT !.count = c]] :
             p \in {<<>>} \cup {<<<<S_page_number, v>>>> : v \in Values},
             c \in 0..MaxCount}
    \* what the callback returns
    \cup {[params |-> <<>>,
           result |-> [data |-> d, included |-> i, count |-> Len(d), status |-> st]] :
             d \in DataInputs, i \in IncludedInputs, st \in StatusInputs}
    \* several parameters in one request
    \cup {[params |-> p, result |-> DefaultResult] :
             p \in {<<<<KeyOf(S_age, S_gt), <<"1">>>>, <<S_page_number, <<"2">>>>,
                      <<KeyNoOp(S_f_1), <<"a">>>>>>,
                    <<<<KeyOf(S_age, <<"z", "z">>), <<"1">>>>, <<S_include, <<"a">>>>,
                      <<KeyNoOp(S_f_1), <<"a">>>>>>,
                    <<<<S_include, <<"a", ",", "a">>>>, <<KeyOf(S_f_1, S_eq), <<"'", "'">>>>>>}}

\* the list route of the generated views maps GET to the list action
ListRouted(v) ==
    \E i \in DOMAIN v.urls :
        v.urls[i].route = "list" /\ <<"get", "list">> \in v.urls[i].actions

\* GET on the list route: the view's list attribute is _list, which reads
\* the builder (self) as it is now
ListRequest ==
    /\ Unserved
    /\ views.built /\ ListRouted(views) /\ views.get_view_set.list
    /\ \E inp \in ListInputs :
          /\ request' = inp
          /\ response' = _list(resource, inp.params, inp.result)
    /\ UNCHANGED <<resource, views>>
    /\ UNCHANGED model_vars /\ UNCHANGED other_vars

\* GET on the list route of a view whose list attribute is None (line 751):
\* the dispatch calls None
ListRequestNoHandler ==
    /\ Unserved
    /\ views.built /\ ListRouted(views) /\ ~views.get_view_set.list
    /\ request' = NoRequest
    /\ response' = Raised("TypeError", "None", NoCall)
    /\ UNCHANGED <<resource, views>>
    /\ UNCHANGED model_vars /\ UNCHANGED other_vars

(***************************************************************************)
(* JsonApiModelViewBuilder, lines 75-285.  The dictionaries _fields,       *)
(* _custom_fields, _relations and _generic_relations map                   *)
(* limit_to_on_retrieve (a boolean) to a list; _filters maps a name to a   *)
(* Filter.                                                                 *)
(***************************************************************************)
DEFAULT_RELATED_LIMIT == 100

Put(d, k, v) == {p \in d : p[1] # k} \cup {<<k, v>>}

\* d[k] if k in d else []
ListOf(d, k) == IF HasKey(d, k) THEN Get(d, k) ELSE <<>>

\* if k not in d: d[k] = [] / d[k].extend(items)
Extend(d, k, items) == Put(d, k, ListOf(d, k) \o items)

NoBuilder ==
    [constructed |-> FALSE, model |-> "None", fields |-> {}, filters |-> {},
     computed_filters |-> {}, relations |-> {}, generic_relations |-> {},
     custom_fields |-> {}, primary_key_name |-> "None", allowed_methods |-> <<>>,
     resource_name |-> "None", related_limit |-> 0,
     permission_classes |-> <<>>, authentication_classes |-> <<>>,
     before_create_callback |-> "None", after_create_callback |-> "None",
     after_get_callback |-> "None", before_update_callback |-> "None",
     after_update_callback |-> "None", before_delete_callback |-> "None",
     after_delete_callback |-> "None", before_list_callback |-> "None",
     after_list_callback |-> "None", before_raw_response |-> "None",
     expose_related_views |-> FALSE, is_admin |-> FALSE,
     spice_queryset |-> "None", include_plugins |-> {},
     queryset |-> "None", plugin_options |-> {}]

\* a validation that rejects a list only when none of its methods is known
InvalidHttpMethodsAll(limit_to_http_methods) ==
    /\ limit_to_http_methods # <<>>
    /\ \A i \in DOMAIN limit_to_http_methods : limit_to_http_methods[i] \notin Range(HTTP_ALL)

\* __validate_http_methods, lines 126-131: does it raise?
InvalidHttpMethods(limit_to_http_methods) ==
    \E i \in DOMAIN limit_to_http_methods : limit_to_http_methods[i] \notin Range(HTTP_ALL)

\* `value or default` for a name: None and the empty string give the default
Or(value, default) == IF value \in {"None", ""} THEN default ELSE value

\* the keyword arguments of __init__ other than allowed_methods, as left out
\* a dict argument that may be None, and `value or {}`
NoneDict == [isNone |-> TRUE, items |-> {}]
Dict(items) == [isNone |-> FALSE, items |-> items]
OrEmptyDict(value) == IF value.isNone THEN {} ELSE value.items

DefaultOptions ==
    [primary_key_name |-> "None", permission_classes |-> NoneList,
     authentication_classes |-> NoneList, permitted_objects |-> "None",
     include_plugins |-> NoneList, expose_related_views |-> FALSE,
     plugin_options |-> NoneDict]

\* `value or []` for a list that may be None
OrEmpty(value) == IF value.isNone THEN <<>> ELSE value.items

\* __init__, lines 78-124: the object as __init__ leaves it, and whether it
\* raised.  Line 90 validates before the first attribute is assigned.
JsonApiModelViewBuilder(model, allowed_methods, options) ==
    IF InvalidHttpMethods(allowed_methods)
    THEN [raised |-> TRUE, self |-> NoBuilder]
    ELSE [raised |-> FALSE,
          self |-> [NoBuilder EXCEPT
                       !.constructed = TRUE, !.model = model,
                       !.primary_key_name = Or(options.primary_key_name, "id"),
                       !.allowed_methods = allowed_methods,
                       !.resource_name = "res",
                       !.related_limit = DEFAULT_RELATED_LIMIT,
                       !.permission_classes = OrEmpty(options.permission_classes),
                       !.authentication_classes = OrEmpty(options.authentication_classes),
                       !.expose_related_views = options.expose_related_views,
                       !.spice_queryset = options.permitted_objects,
                       !.include_plugins = Range(OrEmpty(options.include_plugins)),
                       !.queryset = "objects",
                       !.plugin_options = OrEmptyDict(options.plugin_options)]]

\* the last call on the model builder
Call(op, raised) ==
    [op |-> op, raised |-> raised, allowed_methods |-> <<>>, name |-> "",
     field |-> "", lookups |-> NoneList]
NoCallYet == Call("", FALSE)

\* history: the settings as the configuration calls registered them, and
\* how many registrations and get_urls() calls there were
NothingRegistered ==
    [config_calls |-> 0, builds |-> 0, fields |-> {}, custom_fields |-> {},
     relations |-> {}, generic_relations |-> {}]

Construct(allowed_methods, options) ==
    /\ ~builder.constructed /\ ~resource.constructed
    /\ builder' = JsonApiModelViewBuilder("Model", allowed_methods, options).self
    /\ outcome' = [Call("__init__",
                        JsonApiModelViewBuilder("Model", allowed_methods, options).raised)
                     EXCEPT !.allowed_methods = allowed_methods]
    /\ UNCHANGED <<serializers, registered>>
    /\ UNCHANGED resource_vars /\ UNCHANGED other_vars

\* add_filter, lines 163-173
Filter(field, lookups, transform_value) ==
    [field |-> field, lookups |-> lookups, transform_value |-> transform_value]

\* a validation that looks at the first lookup only
InvalidLookupsFirstOnly(lookups) == lookups # <<>> /\ lookups[1] \notin LOOKUPS_ALL

\* lines 168-171: any lookup outside lookups.ALL raises
InvalidLookups(lookups) == \E i \in DOMAIN lookups : lookups[i] \notin LOOKUPS_ALL

add_filter(name, field, lookups) ==
    LET given == IF lookups.isNone THEN <<EXACT>> ELSE lookups.items
    IN  /\ builder.constructed
        /\ builder' = IF InvalidLookups(given) THEN builder
                      ELSE [builder EXCEPT !.filters =
                               Put(@, name, Filter(Or(field, name), given, "None"))]
        /\ outcome' = [Call("add_filter", InvalidLookups(given))
                         EXCEPT !.name = name, !.field = field, !.lookups = lookups]
        /\ UNCHANGED <<serializers, registered>>
        /\ UNCHANGED resource_vars /\ UNCHANGED other_vars

(***************************************************************************)
(* The resource builder and the requests to its views.                     *)
(***************************************************************************)
(***************************************************************************)
(* The registration calls, lines 139-231.  Each also writes the history    *)
(* variable `registered`.                                                  *)
(***************************************************************************)
CanConfigure == builder.constructed /\ registered.config_calls < MaxConfigCalls

CustomField(name, callback) == [name |-> name, callback |-> callback]

Relation(field, resource_name, many, required) ==
    [field |-> field, resource_name |-> Or(resource_name, field), many |-> many,
     required |-> required]

GenericRelation(field, related, many, required) ==
    [field |-> field, related |-> related, many |-> many, required |-> required]

Registered(op) ==
    /\ outcome' = Call(op, FALSE)
    /\ UNCHANGED serializers
    /\ UNCHANGED resource_vars /\ UNCHANGED other_vars

\* fields, lines 139-144
fields(names, limit_to_on_retrieve) ==
    /\ CanConfigure
    /\ builder' = [builder EXCEPT !.fields = Extend(@, limit_to_on_retrieve, names)]
    /\ registered' = [registered EXCEPT !.config_calls = @ + 1,
                         !.fields = Extend(@, limit_to_on_retrieve, names)]
    /\ Registered("fields")

\* dummy_fields, lines 146-150: fields() and custom_fields(), both for list
dummy_fields(names) ==
    LET customs == [i \in DOMAIN names |-> CustomField(names[i], "dummy")]
    IN  /\ CanConfigure
        /\ builder' = [builder EXCEPT !.fields = Extend(@, FALSE, names),
                                      !.custom_fields = Extend(@, FALSE, customs)]
        /\ registered' = [registered EXCEPT !.config_calls = @ + 1,
                             !.fields = Extend(@, FALSE, names),
                             !.custom_fields = Extend(@, FALSE, customs)]
        /\ Registered("dummy_fields")

\* add_field, lines 152-156
add_field(name, limit_to_on_retrieve) ==
    /\ CanConfigure
    /\ builder' = [builder EXCEPT !.fields = Extend(@, limit_to_on_retrieve, <<name>>)]
    /\ registered' = [registered EXCEPT !.config_calls = @ + 1,
                         !.fields = Extend(@, limit_to_on_retrieve, <<name>>)]
    /\ Registered("add_field")

\* add_dummy_field, lines 158-161
add_dummy_field(name) ==
    /\ CanConfigure
    /\ builder' = [builder EXCEPT
                      !.fields = Extend(@, FALSE, <<name>>),
                      !.custom_fields = Extend(@, FALSE, <<CustomField(name, "dummy")>>)]
    /\ registered' = [registered EXCEPT !.config_calls = @ + 1,
                         !.fields = Extend(@, FALSE, <<name>>),
                         !.custom_fields =
                             Extend(@, FALSE, <<CustomField(name, "dummy")>>)]
    /\ Registered("add_dummy_field")

\* add_relation, lines 182-192
add_relation(field, limit_to_on_retrieve) ==
    /\ CanConfigure
    /\ builder' = [builder EXCEPT !.relations =
                      Extend(@, limit_to_on_retrieve,
                             <<Relation(field, "None", FALSE, FALSE)>>)]
    /\ registered' = [registered EXCEPT !.config_calls = @ + 1,
                         !.relations = Extend(@, limit_to_on_retrieve,
                                              <<Relation(field, "None", FALSE, FALSE)>>)]
    /\ Registered("add_relation")

\* rl, lines 194-200: add_relation under a short name
rl(field, limit_to_on_retrieve) ==
    /\ CanConfigure
    /\ builder' = [builder EXCEPT !.relations =
                      Extend(@, limit_to_on_retrieve,
                             <<Relation(field, "None", FALSE, FALSE)>>)]
    /\ registered' = [registered EXCEPT !.config_calls = @ + 1,
                         !.relations = Extend(@, limit_to_on_retrieve,
                                              <<Relation(field, "None", FALSE, FALSE)>>)]
    /\ Registered("rl")

\* add_generic_relation, lines 202-216
add_generic_relation(field, limit_to_on_retrieve) ==
    /\ CanConfigure
    /\ builder' = [builder EXCEPT !.generic_relations =
                      Extend(@, limit_to_on_retrieve,
                             <<GenericRelation(field, <<"related">>, FALSE, FALSE)>>)]
    /\ registered' = [registered EXCEPT !.config_calls = @ + 1,
                         !.generic_relations =
                             Extend(@, limit_to_on_retrieve,
                                    <<GenericRelation(field, <<"related">>, FALSE, FALSE)>>)]
    /\ Registered("add_generic_relation")

\* add_custom_field, lines 218-223
add_custom_field(name, limit_to_on_retrieve) ==
    /\ CanConfigure
    /\ builder' = [builder EXCEPT !.custom_fields =
                      Extend(@, limit_to_on_retrieve, <<CustomField(name, "callback")>>)]
    /\ registered' = [registered EXCEPT !.config_calls = @ + 1,
                         !.custom_fields = Extend(@, limit_to_on_retrieve,
                                                  <<CustomField(name, "callback")>>)]
    /\ Registered("add_custom_field")

\* custom_fields, lines 225-231
custom_fields(names, limit_to_on_retrieve) ==
    LET customs == [i \in DOMAIN names |-> CustomField(names[i], "callback")]
    IN  /\ CanConfigure
        /\ builder' = [builder EXCEPT !.custom_fields =
                          Extend(@, limit_to_on_retrieve, customs)]
        /\ registered' = [registered EXCEPT !.config_calls = @ + 1,
                             !.custom_fields = Extend(@, limit_to_on_retrieve, customs)]
        /\ Registered("custom_fields")

(***************************************************************************)
(* The lifecycle setters of the model builder, lines 237-281: each stores  *)
(* the callback, warns when its HTTP method is not allowed, returns self.   *)
(***************************************************************************)
ModelSetterDone(op, callback, method) ==
    /\ CanConfigure
    /\ registered' = [registered EXCEPT !.config_calls = @ + 1]
    /\ outcome' = [Call(op, FALSE) EXCEPT !.name = callback]
    /\ log' = __warn_if_method_not_available(builder, method)
    /\ UNCHANGED serializers
    /\ UNCHANGED resource_vars /\ UNCHANGED <<model_views, events, probe>>

\* before_create, lines 237-240
before_create ==
    \E before_create_callback \in CallbackInputs :
        /\ builder' = [builder EXCEPT !.before_create_callback = before_create_callback]
        /\ ModelSetterDone("before_create", before_create_callback, HTTP_POST)

\* after_create, lines 242-245
after_create ==
    \E after_create_callback \in CallbackInputs :
        /\ builder' = [builder EXCEPT !.after_create_callback = after_create_callback]
        /\ ModelSetterDone("after_create", after_create_callback, HTTP_POST)

\* after_get, lines 247-250
after_get ==
    \E after_get_callback \in CallbackInputs :
        /\ builder' = [builder EXCEPT !.after_get_callback = after_get_callback]
        /\ ModelSetterDone("after_get", after_get_callback, HTTP_GET)

\* before_update, lines 252-255
before_update ==
    \E before_update_callback \in CallbackInputs :
        /\ builder' = [builder EXCEPT !.before_update_callback = before_update_callback]
        /\ ModelSetterDone("before_update", before_update_callback, HTTP_PATCH)

\* after_update, lines 257-260
after_update ==
    \E after_update_callback \in CallbackInputs :
        /\ builder' = [builder EXCEPT !.after_update_callback = after_update_callback]
        /\ ModelSetterDone("after_update", after_update_callback, HTTP_PATCH)

\* before_delete, lines 262-265
before_delete ==
    \E before_delete_callback \in CallbackInputs :
        /\ builder' = [builder EXCEPT !.before_delete_callback = before_delete_callback]
        /\ ModelSetterDone("before_delete", before_delete_callback, HTTP_DELETE)

\* after_delete, lines 267-270
after_delete ==
    \E after_delete_callback \in CallbackInputs :
        /\ builder' = [builder EXCEPT !.after_delete_callback = after_delete_callback]
        /\ ModelSetterDone("after_delete", after_delete_callback, HTTP_DELETE)

\* before_list, lines 272-276
before_list ==
    \E before_list_callback \in CallbackInputs :
        /\ builder' = [builder EXCEPT !.before_list_callback = before_list_callback]
        /\ ModelSetterDone("before_list", before_list_callback, HTTP_GET)

\* after_list, lines 278-281
after_list ==
    \E after_list_callback \in CallbackInputs :
        /\ builder' = [builder EXCEPT !.after_list_callback = after_list_callback]
        /\ ModelSetterDone("after_list", after_list_callback, HTTP_GET)

(***************************************************************************)
(* JsonApiModelViewBuilder._build, lines 328-360: the two serializers.     *)
(* For limit_to_on_retrieve = True the list taken from the dictionary is   *)
(* the dictionary's own list object, and extend() changes it in place;     *)
(* when the dictionary has no True entry the list is a new one.            *)
(***************************************************************************)
\* the argument lists of the two _construct_serializer calls
ListSettings(d) == ListOf(d, FALSE)
RetrieveSettings(d) == ListOf(d, TRUE) \o ListOf(d, FALSE)

\* the dictionary after the loop of lines 330-344
AfterBuild(d) ==
    IF HasKey(d, TRUE) THEN Put(d, TRUE, Get(d, TRUE) \o ListOf(d, FALSE)) ELSE d

_construct_serializer(name, self, fields_, custom_fields_, relations, generic_relations) ==
    [name |-> name, model |-> self.model, resource_name |-> self.resource_name,
     fields |-> fields_, custom_fields |-> custom_fields_, relations |-> relations,
     generic_relations |-> generic_relations, related_limit |-> self.related_limit,
     primary_key_name |-> self.primary_key_name,
     before_callback |-> IF name = "Retrieve" THEN self.before_update_callback
                         ELSE self.before_create_callback,
     after_list_callback |-> self.after_list_callback, is_admin |-> self.is_admin]

ModelBuild(self) ==
    [serializers |->
        <<_construct_serializer("List", self, ListSettings(self.fields),
              ListSettings(self.custom_fields), ListSettings(self.relations),
              ListSettings(self.generic_relations)),
          _construct_serializer("Retrieve", self, RetrieveSettings(self.fields),
              RetrieveSettings(self.custom_fields), RetrieveSettings(self.relations),
              RetrieveSettings(self.generic_relations))>>,
     self |-> [self EXCEPT !.fields = AfterBuild(@),
                           !.custom_fields = AfterBuild(@),
                           !.relations = AfterBuild(@),
                           !.generic_relations = AfterBuild(@)]]

(***************************************************************************)
(* JsonApiModelViewBuilder._build, lines 452-539: for each of the two      *)
(* primary-key names, the three view classes made with type() and their    *)
(* routes.  A class attribute that the type() call does not give is        *)
(* inherited from the framework's base class.  as_view of a view set       *)
(* raises TypeError for an empty action map.                               *)
(***************************************************************************)
\* list(map(lower, filter(method in among, allowed_methods))) + ['head', 'options']
http_method_names(allowed_methods, among) ==
    LET F[i \in 0..Len(allowed_methods)] ==
            IF i = 0 THEN <<>>
            ELSE IF allowed_methods[i] \in among
                 THEN Append(F[i - 1], HttpName(allowed_methods[i])) ELSE F[i - 1]
    IN  F[Len(allowed_methods)] \o <<"head", "options">>

\* a class attribute given to type(), or left to the base class
Own(classes) == [inherited |-> FALSE, classes |-> classes]
Inherited == [inherited |-> TRUE, classes |-> <<>>]

\* lines 453-467
relationship_view(self, pk_name) ==
    [name |-> "RelationshipsView", lookup_field |-> pk_name,
     http_method_names |->
         http_method_names(self.allowed_methods, {HTTP_GET, HTTP_PATCH, HTTP_DELETE}),
     permission_classes |-> Inherited, authentication_classes |-> Inherited]

\* lines 469-486
list_method_view_set(self, pk_name) ==
    [name |-> "ListViewSet", lookup_field |-> pk_name,
     http_method_names |-> http_method_names(self.allowed_methods, {HTTP_GET, HTTP_POST}),
     permission_classes |-> Own(self.permission_classes),
     authentication_classes |-> Own(self.authentication_classes)]

\* lines 488-503
get_method_view_set(self, pk_name) ==
    [name |-> "GetViewSet", lookup_field |-> pk_name,
     http_method_names |->
         http_method_names(self.allowed_methods, {HTTP_GET, HTTP_PATCH, HTTP_DELETE}),
     permission_classes |-> Own(self.permission_classes),
     authentication_classes |-> Own(self.authentication_classes)]

\* lines 516-539: the routes of one primary-key name, each with the class
\* that serves it and its action map
ModelRoutes(self, pk_name) ==
    <<[route |-> "list", pk_name |-> pk_name, view |-> "ListViewSet",
       actions |-> get_dict_by_methods("list", self.allowed_methods)],
      [route |-> "detail", pk_name |-> pk_name, view |-> "GetViewSet",
       actions |-> get_dict_by_methods("get", self.allowed_methods)],
      [route |-> "relationships", pk_name |-> pk_name, view |-> "RelationshipsView",
       actions |-> {}]>>
    \o (IF self.expose_related_views
           /\ get_dict_by_methods("relation", self.allowed_methods) # {}
        THEN <<[route |-> "related", pk_name |-> pk_name, view |-> "ListViewSet",
                actions |-> get_dict_by_methods("relation", self.allowed_methods)]>>
        ELSE <<>>)

ModelViews(self) ==
    LET pk_names == <<"pk", self.primary_key_name>>
    IN  [built |-> TRUE,
         raised |-> \/ get_dict_by_methods("list", self.allowed_methods) = {}
                    \/ get_dict_by_methods("get", self.allowed_methods) = {},
         classes |-> <<relationship_view(self, pk_names[1]),
                       list_method_view_set(self, pk_names[1]),
                       get_method_view_set(self, pk_names[1]),
                       relationship_view(self, pk_names[2]),
                       list_method_view_set(self, pk_names[2]),
                       get_method_view_set(self, pk_names[2])>>,
         urls |-> ModelRoutes(self, pk_names[1]) \o ModelRoutes(self, pk_names[2]),
         builds |-> <<>>, copies |-> <<>>]

(***************************************************************************)
(* The plugins, lines 287-323 and 541-550.  Builders are objects: heap is  *)
(* the list of the builders that exist, a reference is an index into it,   *)
(* and heap[1] is the builder get_urls() was called on.  A build is one    *)
(* call of _build: the builder it ran on, how deep it is nested in other   *)
(* _build calls, and what it made.                                         *)
(***************************************************************************)
DJANGO_SIMPLE_HISTORY == "DJANGO_SIMPLE_HISTORY"
AUTO_ADMIN_VIEWS == "AUTO_ADMIN_VIEWS"
ADMIN_PERMISSION_CLASS == "ADMIN_PERMISSION_CLASS"

\* a copy that is the object itself
deepcopy_alias(heap, ref) == [heap |-> heap, ref |-> ref]

\* deepcopy(self), lines 288 and 309: a new object equal to the one copied
deepcopy(heap, ref) == [heap |-> Append(heap, heap[ref]), ref |-> Len(heap) + 1]

\* a derived builder that keeps the plugin list it was copied with
KeepPlugins(copy, self, plugin) == copy

\* lines 289-290 and 310-311
ClearPlugins(copy, self, plugin) ==
    IF plugin \in self.include_plugins THEN [copy EXCEPT !.include_plugins = {}]
    ELSE copy

\* lines 313-314: _plugin_options.get(AUTO_ADMIN_VIEWS, {}).get('ADMIN_PERMISSION_CLASS')
AdminPermissionClass(plugin_options) ==
    IF HasKey(plugin_options, AUTO_ADMIN_VIEWS)
       /\ HasKey(Get(plugin_options, AUTO_ADMIN_VIEWS), ADMIN_PERMISSION_CLASS)
    THEN Get(Get(plugin_options, AUTO_ADMIN_VIEWS), ADMIN_PERMISSION_CLASS)
    ELSE "None"

\* lines 297-304: the fields and filters of the history builder
HistoryFields == <<"history_date", "history_change_reason", "history_id", "history_type">>
HistoryFilters(filters) ==
    LET dated == Put(filters, "history_date",
                     Filter("history_date", <<"exact", "in", "lt", "lte", "gt", "gte">>,
                            "None"))
        F[i \in 0..3] ==
            IF i = 0 THEN dated
            ELSE Put(F[i - 1], <<"history_id", "history_change_reason", "history_type">>[i],
                     Filter(<<"history_id", "history_change_reason", "history_type">>[i],
                            <<EXACT, LOOKUP_IN>>, "None"))
    IN  F[3]

Build(kind, depth, ref, self, urls_prefix, cut) ==
    [kind |-> kind, depth |-> depth, ref |-> ref, cut |-> cut,
     include_plugins |-> self.include_plugins, urls_prefix |-> urls_prefix,
     serializers |-> IF cut THEN <<>> ELSE ModelBuild(self).serializers,
     classes |-> IF cut THEN <<>> ELSE ModelViews(self).classes,
     raised |-> ~cut /\ ModelViews(self).raised,
     \* lines 448-449: _RESOURCE_NAME_TO_SPICE[self._resource_name] = ...
     spice |-> IF ~cut /\ self.spice_queryset # "None"
               THEN {<<self.resource_name, self.spice_queryset>>} ELSE {}]

RECURSIVE _build(_, _, _, _, _, _)
RECURSIVE _get_history_urls(_, _, _, _)
RECURSIVE _get_admin_urls(_, _, _, _)

\* _get_history_urls, lines 287-306
_get_history_urls(heap, self, depth, simple_history) ==
    LET copied == deepcopy(heap, self)
        history_builder ==
            [ClearPlugins(copied.heap[copied.ref], copied.heap[self],
                           DJANGO_SIMPLE_HISTORY)
                EXCEPT !.model = "Historical" \o copied.heap[self].model,
                       !.queryset = "history",
                       !.resource_name = "historical_" \o copied.heap[self].resource_name,
                       !.custom_fields = {},
                       !.fields = Extend(@, FALSE, HistoryFields),
                       !.filters = HistoryFilters(@)]
    IN  _build([copied.heap EXCEPT ![copied.ref] = history_builder], copied.ref,
               "history", depth + 1, "history/", simple_history)

\* _get_admin_urls, lines 308-323
_get_admin_urls(heap, self, depth, simple_history) ==
    LET copied == deepcopy(heap, self)
        cleared == ClearPlugins(copied.heap[copied.ref], copied.heap[self],
                                AUTO_ADMIN_VIEWS)
        admin_permission_class == AdminPermissionClass(cleared.plugin_options)
        admin_builder ==
            [cleared EXCEPT !.spice_queryset = "None", !.is_admin = TRUE,
                            !.permission_classes =
                                IF admin_permission_class # "None"
                                THEN Append(@, admin_permission_class) ELSE @]
    IN  _build([copied.heap EXCEPT ![copied.ref] = admin_builder], copied.ref,
               "admin", depth + 1, "admin/", simple_history)

\* _build, lines 325-552: the serializers (extending the builder's lists),
\* the view classes and routes, then the plugins.  simple_history is
\* whether `import simple_history` succeeds; what the history build raises
\* is swallowed, what the admin build raises is not.  A call nested deeper
\* than MaxNesting is recorded and not followed.
_build(heap, ref, kind, depth, urls_prefix, simple_history) ==
    IF depth > MaxNesting
    THEN [heap |-> heap, raised |-> FALSE,
          builds |-> <<Build(kind, depth, ref, heap[ref], urls_prefix, TRUE)>>]
    ELSE LET this == Build(kind, depth, ref, heap[ref], urls_prefix, FALSE)
             built == [heap EXCEPT ![ref] = ModelBuild(@).self]
             nothing == [heap |-> built, raised |-> FALSE, builds |-> <<>>]
             history == IF DJANGO_SIMPLE_HISTORY \in built[ref].include_plugins
                           /\ simple_history
                        THEN _get_history_urls(built, ref, depth, simple_history)
                        ELSE nothing
             admin == IF AUTO_ADMIN_VIEWS \in history.heap[ref].include_plugins
                      THEN _get_admin_urls(history.heap, ref, depth, simple_history)
                      ELSE [nothing EXCEPT !.heap = history.heap]
         IN  IF this.raised
             THEN [heap |-> built, raised |-> TRUE, builds |-> <<this>>]
             ELSE [heap |-> admin.heap, raised |-> admin.raised,
                   builds |-> <<this>> \o history.builds \o admin.builds]

\* whether `import simple_history` succeeds (line 543 is reached only with
\* the plugin)
ImportInputs(self) ==
    IF DJANGO_SIMPLE_HISTORY \in self.include_plugins THEN BOOLEAN ELSE {TRUE}

\* get_urls(), lines 554-556.  The serializers are made, and the builder's
\* lists extended, before the first as_view call can raise; a call that
\* raises returns no routes.  model_views holds the classes and routes of
\* the builder itself, every _build call made, and the copies of the builder
\* that were made (reference n + 1 is copies[n]).
get_urls ==
    /\ builder.constructed /\ registered.builds < MaxBuilds
    /\ \E simple_history \in ImportInputs(builder) :
          \E done \in {_build(<<builder>>, 1, "main", 0, "", simple_history)} :
              /\ builder' = done.heap[1]
              /\ serializers' = done.builds[1].serializers
              /\ model_views' =
                    IF done.raised
                    THEN [NoModelViews EXCEPT !.raised = TRUE, !.builds = done.builds,
                                              !.copies = Tail(done.heap)]
                    ELSE [ModelViews(builder) EXCEPT !.builds = done.builds,
                                                     !.copies = Tail(done.heap)]
              /\ outcome' = Call("get_urls", done.raised)
    /\ registered' = [registered EXCEPT !.builds = @ + 1]
    /\ UNCHANGED resource_vars /\ UNCHANGED <<log, events, probe>>

ModelIdle ==
    /\ builder = NoBuilder /\ serializers = <<>>
    /\ registered = NothingRegistered /\ outcome = NoCallYet

InitResource ==
    /\ ModelIdle /\ Unobserved
    /\ resource = NoResource
    /\ views = NoViews
    /\ request = NoRequest
    /\ response = NoResponse

NextResource ==
    \/ ConstructResource
    \/ on_list
    \/ ResourceGetUrls
    \/ ListRequest
    \/ ListRequestNoHandler

SpecResource == InitResource /\ [][NextResource]_vars

(***************************************************************************)
(* Claims about the resource builder, checked under SpecResource.          *)
(***************************************************************************)
AllDigitChars == <<"0", "1", "2", "3", "4", "5", "6", "7", "8", "9">>

RECURSIVE NatText(_)
NatText(n) ==
    IF n < 10 THEN <<AllDigitChars[n + 1]>>
    ELSE NatText(n \div 10) \o <<AllDigitChars[(n % 10) + 1]>>

\* the decimal text of an integer
IntText(n) == IF n < 0 THEN <<"-">> \o NatText(0 - n) ELSE NatText(n)

\* the source text of a Python int or str value
Repr(value) ==
    IF value.t = "int" THEN IntText(value.n) ELSE <<"'">> \o value.s \o <<"'">>

\* the texts of Values that are Python literals: the source texts of the
\* integers and strings short enough
LiteralTexts ==
    {IntText(n) : n \in (0 - 10 ^ MaxValLen)..(10 ^ MaxValLen)}
        \cup {Repr(PyStr(t)) : t \in SeqsUpTo(ValueChars \ {"'"}, MaxValLen)}

WellFormedFilterKeys ==
    {KeyOf(f, o) : f \in FieldNames, o \in OpNames} \cup {KeyNoOp(f) : f \in FieldNames}

Served == response.kind # "idle"
Responded == response.kind = "response"

\* C3: a key filter[field.op] whose op is a key of FILTER_MAP produces the
\* filter entry with 'field' field and 'op' FILTER_MAP[op], for every field
\* name and every op of the table.
C3_FilterOpFromTable ==
    \A f \in FieldNames, o \in DOMAIN FILTER_MAP :
        (Responded /\ Len(request.params) = 1 /\ request.params[1][1] = KeyOf(f, o))
            => /\ Len(response.call.filters) = 1
               /\ response.call.filters[1].field = f
               /\ response.call.filters[1].op = FILTER_MAP[o]

\* C4: a filter value that is no literal never makes the request fail: the
\* callback is called with the filter entry, whose 'value' is the raw text
\* unchanged; a value that is a literal is passed on as the evaluated
\* literal (the value whose source text the raw text is).
C4_FilterValueFallback ==
    (/\ Served /\ resource.on_list_callback # "None"
     /\ Len(request.params) = 1 /\ request.params[1][1] \in WellFormedFilterKeys)
        => LET raw == request.params[1][2]
               entry == response.call.filters[1]
           IN  /\ response.called = resource.on_list_callback
               /\ resource.page_size >= 1 => Responded
               /\ Len(response.call.filters) = 1
               /\ IF raw \in LiteralTexts
                  THEN entry.value.t \in {"int", "str"} /\ Repr(entry.value) = raw
                  ELSE entry.value = PyStr(raw)

C4_Witness ==
    /\ Responded /\ Len(request.params) = 1
    /\ request.params[1] = <<KeyOf(S_age, S_gt), <<"1", "a">>>>
    /\ response.call.filters[1].value = PyStr(<<"1", "a">>)

\* C5: once get_urls() has returned, a request served by a generated view
\* behaves as it would with the configuration that was in force when
\* get_urls() was called, whatever builder calls were made since.
C5_FrozenAtGetUrls ==
    (Served /\ views.get_view_set.list)
        => response = _list(views.at_build, request.params, request.result)

\* C7: whenever an on_list callback is configured, every response of the list
\* handler carries 'data', 'included' (an empty list when the callback
\* returns none), 'meta.pagination' with page, pages and count, and 'links'
\* with first, last, next and previous, with the callback's status code.
C7_ListEnvelope ==
    /\ (Served /\ resource.on_list_callback # "None") => response.kind # "none"
    /\ Responded =>
        /\ DOMAIN response.body = {"links", "data", "included", "meta"}
        /\ DOMAIN response.body.links = {"first", "last", "next", "previous"}
        /\ DOMAIN response.body.meta = {"pagination"}
        /\ DOMAIN response.body.meta.pagination = {"page", "pages", "count"}
        /\ ~response.body.included.isNone
        /\ (request.result.included.isNone \/ request.result.included.items = <<>>)
              => response.body.included.items = <<>>
        /\ request.result.included.items # <<>>
              => response.body.included = request.result.included
        /\ Len(response.body.data) = Len(request.result.data)
        /\ response.status = request.result.status

C7_Witness ==
    /\ Responded /\ request.result.included.isNone
    /\ request.result.status = 404
    /\ response.body.included = List(<<>>)

\* C8: links.next is non-null exactly when page < pages and then names
\* page + 1; links.previous is non-null exactly when page > 1 and then names
\* page - 1, for every requested page number and every item count (stated
\* here for the positive page numbers only).
C8_NextPreviousLinks ==
    (Responded /\ response.body.meta.pagination.page >= 1) =>
        LET page == response.body.meta.pagination.page
            pages == response.body.meta.pagination.pages
            links == response.body.links
        IN  /\ ~links.next.null <=> page < pages
            /\ ~links.next.null => links.next.page_number = page + 1
            /\ ~links.previous.null <=> page > 1
            /\ ~links.previous.null => links.previous.page_number = page - 1

\* the page the request asks for is the one the response reports: 1 when
\* page_number is absent, else the integer whose decimal text was sent
EchoesPage(page) ==
    IF ParamHas(request.params, S_page_number)
    THEN IntText(page) = ParamGet(request.params, S_page_number)
    ELSE page = 1

PaginationNumbers ==
    LET count == request.result.count
        pagination == response.body.meta.pagination
        links == response.body.links
    IN  /\ pagination.pages * resource.page_size >= count
        /\ (pagination.pages - 1) * resource.page_size < count
        /\ pagination.count = count
        /\ EchoesPage(pagination.page)
        /\ ~links.first.null /\ links.first.page_number = 1
        /\ ~links.last.null /\ links.last.page_number = pagination.pages

\* C9 (as claimed): pages is the smallest p with p * page_size >= count,
\* count and page echo the callback's count and the requested page_number,
\* first names page 1 and last names page `pages`, so the last link never
\* names a page lower than the first link does.
C9_AsClaimed ==
    Responded =>
        /\ PaginationNumbers
        /\ response.body.links.last.page_number >= response.body.links.first.page_number

\* C9 (amended): as claimed, but the last link names a page lower than the
\* first one exactly when count = 0, where pages is 0 and last names page 0.
C9_Pagination ==
    Responded =>
        /\ PaginationNumbers
        /\ response.body.links.last.page_number < response.body.links.first.page_number
              <=> request.result.count = 0

C9_Witness ==
    /\ Responded /\ request.result.count = 3 /\ resource.page_size = 2
    /\ response.body.meta.pagination.pages = 2
    /\ ParamHas(request.params, S_page_number)
    /\ response.body.meta.pagination.page = 2

\* C10: a JsonApiResourceViewBuilder whose allowed_methods holds a method
\* outside the method set is never constructed, so none reaches get_urls().
C10_ResourceMethodsValidated ==
    /\ resource.constructed => Range(resource.allowed_methods) \subseteq Range(HTTP_ALL)
    /\ views.built => Range(views.at_build.allowed_methods) \subseteq Range(HTTP_ALL)

(***************************************************************************)
(* The model builder: construction and filters.                            *)
(***************************************************************************)
ResourceIdle ==
    /\ resource = NoResource /\ views = NoViews
    /\ request = NoRequest /\ response = NoResponse

Init == ModelIdle /\ ResourceIdle /\ Unobserved

FilterNames == {"f", "g"}
FieldInputs == {"None", "", "x"}
\* lookups arguments: None, tuples of known lookups, and tuples with an
\* unknown one at either end
LookupsInputs ==
    {NoneList, List(<<>>), List(<<EXACT>>), List(<<EXACT, LOOKUP_IN>>),
     List(<<"bogus">>), List(<<EXACT, "bogus">>), List(<<"bogus", LOOKUP_IN>>)}

Next ==
    \/ \E allowed_methods \in SeqsUpTo(MethodInputs, MaxMethods) :
          Construct(allowed_methods, DefaultOptions)
    \/ \E name \in FilterNames, field \in FieldInputs, lookups \in LookupsInputs :
          add_filter(name, field, lookups)

Spec == Init /\ [][Next]_vars

(***************************************************************************)
(* Claims about construction and filters, checked under Spec.              *)
(***************************************************************************)
\* C1: constructing a JsonApiModelViewBuilder raises if and only if
\* allowed_methods contains a method that is not a member of HTTP_ALL; when
\* it raises no attribute of the builder has been set, and a list made only
\* of HTTP_ALL members (the empty list too) gives a builder with that list.
C1_MethodsValidated ==
    /\ builder.constructed => Range(builder.allowed_methods) \subseteq Range(HTTP_ALL)
    /\ outcome.op = "__init__" =>
        /\ outcome.raised <=> ~(Range(outcome.allowed_methods) \subseteq Range(HTTP_ALL))
        /\ outcome.raised => builder = NoBuilder
        /\ ~outcome.raised =>
              builder.constructed /\ builder.allowed_methods = outcome.allowed_methods

C1_Witness ==
    /\ outcome.op = "__init__" /\ outcome.raised
    /\ outcome.allowed_methods = <<HTTP_GET, INVALID_METHOD>>
    /\ ~builder.constructed

\* C2: add_filter raises whenever one of the given lookups is not a known
\* lookup, and then leaves the filter table as it was; when every lookup is
\* known the filter is recorded under its name, with lookups defaulting to
\* exact match and field defaulting to the name, and no other entry changes.
C2_AddFilter ==
    [][outcome'.op = "add_filter" =>
        LET name == outcome'.name
            field == outcome'.field
            lookups == outcome'.lookups
        IN  /\ outcome'.raised <=>
                  (~lookups.isNone /\ ~(Range(lookups.items) \subseteq LOOKUPS_ALL))
            /\ outcome'.raised => builder'.filters = builder.filters
            /\ ~outcome'.raised =>
                /\ HasKey(builder'.filters, name)
                /\ Get(builder'.filters, name).field
                      = (IF field \in {"None", ""} THEN name ELSE field)
                /\ Get(builder'.filters, name).lookups
                      = (IF lookups.isNone THEN <<"exact">> ELSE lookups.items)
                /\ \A other \in FilterNames \ {name} :
                      /\ HasKey(builder'.filters, other) <=> HasKey(builder.filters, other)
                      /\ HasKey(builder.filters, other) =>
                            Get(builder'.filters, other) = Get(builder.filters, other)
                /\ Cardinality(builder'.filters)
                      = Cardinality({n \in FilterNames : HasKey(builder'.filters, n)})]_vars

C2_Witness ==
    /\ outcome.op = "add_filter" /\ outcome.raised
    /\ outcome.lookups = List(<<EXACT, "bogus">>)
    /\ builder.filters # {}

(***************************************************************************)
(* The model builder: registrations and get_urls().                        *)
(***************************************************************************)
NextSerializers ==
    \/ Construct(HTTP_ALL, DefaultOptions)
    \/ \E limit \in BOOLEAN : fields(<<"a", "b">>, limit)
    \/ dummy_fields(<<"d">>)
    \/ \E name \in {"a", "b"}, limit \in BOOLEAN : add_field(name, limit)
    \/ add_dummy_field("d")
    \/ \E limit \in BOOLEAN : add_custom_field("c", limit)
    \/ \E limit \in BOOLEAN : custom_fields(<<"c", "e">>, limit)
    \/ \E limit \in BOOLEAN : add_relation("r", limit)
    \/ \E limit \in BOOLEAN : rl("r", limit)
    \/ \E limit \in BOOLEAN : add_generic_relation("g", limit)
    \/ get_urls

SpecSerializers == Init /\ [][NextSerializers]_vars

\* C6: at build time the List serializer is constructed from exactly the
\* fields, custom fields, relations and generic relations registered with
\* limit_to_on_retrieve=False, and the Retrieve serializer from those
\* registered with limit_to_on_retrieve=True followed by all the list ones,
\* after any sequence of configuration calls.
C6_SerializersFromRegistration ==
    outcome.op = "get_urls" =>
        /\ serializers[1].name = "List" /\ serializers[2].name = "Retrieve"
        /\ \A kind \in {"fields", "custom_fields", "relations", "generic_relations"} :
              /\ serializers[1][kind] = ListOf(registered[kind], FALSE)
              /\ serializers[2][kind]
                    = ListOf(registered[kind], TRUE) \o ListOf(registered[kind], FALSE)

(***************************************************************************)
(* The other handlers of the resource views, lines 628-654 and 695-703.    *)
(*   identifier: kwargs.get(self._unique_identifier, None);                *)
(*   sent:       the 'data' member of the request body (a dict);           *)
(*   result:     what the callback returns when it is called.              *)
(* self._raw_items holds the negation of the raw_items argument.           *)
(***************************************************************************)
IdCall(identifier) == [identifier |-> identifier]

\* the body {'id': identifier, 'type': resource name, 'attributes': data}
Wrapped(self, identifier, data) ==
    [wrapped |-> TRUE, id |-> identifier, type |-> self.resource_name, attributes |-> data]

\* data handed to Response as it is
Bare(data) == [wrapped |-> FALSE, id |-> NoInt, type |-> "", attributes |-> data]

\* destroy, lines 628-633
destroy(self, identifier, result) ==
    IF self.on_delete_callback = "None" THEN ReturnedNone
    ELSE Response(self.on_delete_callback, IdCall(identifier), result.status, {})

\* update, lines 635-644
update(self, identifier, sent, result) ==
    IF self.on_update_callback = "None" THEN ReturnedNone
    ELSE Response(self.on_update_callback, [identifier |-> identifier, data |-> sent],
                  result.status,
                  IF self.raw_items THEN Wrapped(self, identifier, result.data)
                  ELSE [data |-> result.data])

\* create, lines 646-654: the identifier is the one the callback returns
create(self, sent, result) ==
    IF self.on_create_callback = "None" THEN ReturnedNone
    ELSE Response(self.on_create_callback, [data |-> sent], result.status,
                  IF self.raw_items THEN Wrapped(self, result.identifier, result.data)
                  ELSE [data |-> result.data])

\* get, lines 695-703
get(self, identifier, result) ==
    IF self.on_get_callback = "None" THEN ReturnedNone
    ELSE Response(self.on_get_callback, IdCall(identifier), result.status,
                  IF self.raw_items THEN Wrapped(self, identifier, result.data)
                  ELSE Bare(result.data))

IdentifierInputs == {NoInt, SomeInt(7)}
SentInputs == {{}, ItemB}
ResultInputs ==
    {[data |-> d, identifier |-> i, status |-> st] :
        d \in {ItemA, ItemB}, i \in {NoInt, SomeInt(9)}, st \in StatusInputs}

\* the detail route of the generated views maps the method to the action
DetailRouted(v, method, action) ==
    \E i \in DOMAIN v.urls :
        v.urls[i].route = "detail" /\ <<method, action>> \in v.urls[i].actions

CreateRouted(v) ==
    \E i \in DOMAIN v.urls :
        v.urls[i].route = "list" /\ <<"post", "create">> \in v.urls[i].actions

ServedBy(handler, identifier, sent, result) ==
    /\ request' = [handler |-> handler, identifier |-> identifier, sent |-> sent,
                   result |-> result]
    /\ UNCHANGED <<resource, views>>
    /\ UNCHANGED model_vars /\ UNCHANGED other_vars

\* GET on the detail route
GetRequest ==
    /\ Unserved
    /\ views.built /\ DetailRouted(views, "get", "get") /\ views.patch_view_set.get
    /\ \E identifier \in IdentifierInputs, result \in ResultInputs :
          /\ response' = get(resource, identifier, result)
          /\ ServedBy("get", identifier, {}, result)

\* POST on the list route
CreateRequest ==
    /\ Unserved
    /\ views.built /\ CreateRouted(views) /\ views.get_view_set.create
    /\ \E sent \in SentInputs, result \in ResultInputs :
          /\ response' = create(resource, sent, result)
          /\ ServedBy("create", NoInt, sent, result)

\* PATCH on the detail route
UpdateRequest ==
    /\ Unserved
    /\ views.built /\ DetailRouted(views, "patch", "update")
    /\ views.patch_view_set.update
    /\ \E identifier \in IdentifierInputs, sent \in SentInputs, result \in ResultInputs :
          /\ response' = update(resource, identifier, sent, result)
          /\ ServedBy("update", identifier, sent, result)

\* DELETE on the detail route
DeleteRequest ==
    /\ Unserved
    /\ views.built /\ DetailRouted(views, "delete", "destroy")
    /\ views.patch_view_set.destroy
    /\ \E identifier \in IdentifierInputs, result \in ResultInputs :
          /\ response' = destroy(resource, identifier, result)
          /\ ServedBy("destroy", identifier, {}, result)

(***************************************************************************)
(* json_api_view(...)(func), lines 796-833: the builder the decorator      *)
(* makes, and what applying it to func returns or raises.                  *)
(***************************************************************************)
\* a decorator without the final else branch: an unsupported method builds
\* views from a builder that has no callback
json_api_view_no_else(resource_name, method, multiple_resource, raw_items, page_size, func) ==
    LET self == JsonApiResourceViewBuilder(resource_name, <<method>>, raw_items, TRUE,
                                           page_size)
    IN  [raised |-> ResourceBuild(self).raised, self |-> self, views |-> ResourceBuild(self)]

json_api_view(resource_name, method, multiple_resource, raw_items, page_size, func) ==
    LET made == JsonApiResourceViewBuilder(resource_name, <<method>>, raw_items, TRUE,
                                           page_size)
        supported == method \in {HTTP_GET, HTTP_POST, HTTP_DELETE, HTTP_PATCH}
        self == IF method = HTTP_GET /\ multiple_resource
                THEN [made EXCEPT !.on_list_callback = func]
                ELSE IF method = HTTP_GET THEN [made EXCEPT !.on_get_callback = func]
                ELSE IF method = HTTP_POST THEN [made EXCEPT !.on_create_callback = func]
                ELSE IF method = HTTP_DELETE THEN [made EXCEPT !.on_delete_callback = func]
                ELSE IF method = HTTP_PATCH THEN [made EXCEPT !.on_update_callback = func]
                ELSE made
    IN  [raised |-> ~supported \/ ResourceBuild(self).raised,
         self |-> self,
         views |-> IF supported /\ ~ResourceBuild(self).raised THEN ResourceBuild(self)
                   ELSE [NoViews EXCEPT !.raised = TRUE]]

DecoratedMethodInputs == Range(HTTP_ALL) \cup {INVALID_METHOD, "get"}

Decorate ==
    /\ ~resource.constructed /\ Unserved
    /\ \E method \in DecoratedMethodInputs, multiple_resource \in BOOLEAN,
          raw_items \in BOOLEAN, page_size \in 0..MaxPageSize :
          LET applied == json_api_view("res", method, multiple_resource, raw_items,
                                       page_size, "func")
          IN  /\ resource' = applied.self
              /\ views' = applied.views
              /\ probe' = [fn |-> "json_api_view", args |-> <<method, multiple_resource, raw_items>>,
                           out |-> <<applied.raised>>]
    /\ UNCHANGED <<request, response>>
    /\ UNCHANGED model_vars /\ UNCHANGED <<log, model_views, events>>

NextView ==
    \/ Decorate
    \/ ListRequest
    \/ GetRequest
    \/ CreateRequest
    \/ UpdateRequest
    \/ DeleteRequest

SpecView == InitResource /\ [][NextView]_vars

\* the action the decorator binds the function to, and the route it is on
DecoratedAction(method, multiple_resource) ==
    IF method = HTTP_GET THEN (IF multiple_resource THEN "list" ELSE "get")
    ELSE IF method = HTTP_POST THEN "create"
    ELSE IF method = HTTP_PATCH THEN "update" ELSE "destroy"

DecoratedCallback(self, action) ==
    IF action = "list" THEN self.on_list_callback
    ELSE IF action = "get" THEN self.on_get_callback
    ELSE IF action = "create" THEN self.on_create_callback
    ELSE IF action = "update" THEN self.on_update_callback
    ELSE self.on_delete_callback

HandlerOf(v, action) ==
    IF action \in {"list", "create"} THEN v.get_view_set.exists /\ v.get_view_set[action]
    ELSE v.patch_view_set.exists /\ v.patch_view_set[action]

\* C11: json_api_view applied with a method that is none of GET, POST, PATCH,
\* DELETE raises at decoration time and returns no URLs; with one of the four
\* it returns exactly one route whose action map has exactly one entry, for
\* that method, bound to the handler of the decorated function (list or get
\* for GET depending on multiple_resource, create, update, destroy).
C11_DecoratorRoutes ==
    probe.fn = "json_api_view" =>
        LET method == probe.args[1]
            action == DecoratedAction(method, probe.args[2])
        IN  IF method \notin {"GET", "POST", "PATCH", "DELETE"}
            THEN probe.out[1] /\ ~views.built /\ views.urls = <<>>
            ELSE /\ ~probe.out[1] /\ views.built
                 /\ Len(views.urls) = 1
                 /\ views.urls[1].actions = {<<HttpName(method), action>>}
                 /\ views.urls[1].route
                       = (IF action \in {"list", "create"} THEN "list" ELSE "detail")
                 /\ HandlerOf(views, action)
                 /\ DecoratedCallback(resource, action) = "func"

C11_Witness ==
    /\ probe.fn = "json_api_view" /\ probe.args[1] = "GET" /\ ~probe.args[2]
    /\ views.built /\ views.urls[1].actions = {<<"get", "get">>}

(***************************************************************************)
(* The module-level functions, applied to arguments.                       *)
(***************************************************************************)
\* the members of `methods` that are in `subset`, in the order of `methods`
SelectMethods(methods, subset) ==
    LET F[i \in 0..Len(methods)] ==
            IF i = 0 THEN <<>>
            ELSE IF methods[i] \in subset THEN Append(F[i - 1], methods[i]) ELSE F[i - 1]
    IN  F[Len(methods)]

\* allowed_http_methods arguments: every subset of the JSON:API methods, as
\* a list, alone and with an unknown method
AllowedMethodsInputs ==
    {SelectMethods(HTTP_ALL, S) : S \in SUBSET Range(HTTP_ALL)}
        \cup {Append(SelectMethods(HTTP_ALL, S), INVALID_METHOD) : S \in SUBSET Range(HTTP_ALL)}

ViewTypeInputs == {"get", "list", "relation", "detail"}

Route ==
    /\ probe = NoProbe
    /\ \E view_type \in ViewTypeInputs, allowed_http_methods \in AllowedMethodsInputs :
          probe' = [fn |-> "get_dict_by_methods",
                    args |-> <<view_type, allowed_http_methods>>,
                    out |-> get_dict_by_methods(view_type, allowed_http_methods)]
    /\ UNCHANGED model_vars /\ UNCHANGED resource_vars
    /\ UNCHANGED <<log, model_views, events>>

(***************************************************************************)
(* The prefix of the URL patterns, lines 99, 505-512 and 759-766.  Strings *)
(* are sequences of characters.                                            *)
(***************************************************************************)
\* line 99 and line 575: f'v{api_version}'
url_api_version(api_version) == <<"v">> \o api_version

\* `sub in text` for strings
In(sub, text) ==
    \E i \in 1..(Len(text) - Len(sub) + 1) : SubSeq(text, i, i + Len(sub) - 1) = sub

\* text.rstrip("/")
RECURSIVE rstrip(_)
rstrip(text) ==
    IF text # <<>> /\ text[Len(text)] = "/" THEN rstrip(SubSeq(text, 1, Len(text) - 1))
    ELSE text

\* lines 505-512 (759-766 in the resource builder): urls_prefix as the URL
\* patterns use it
UrlsPrefix(version, urls_prefix) ==
    LET versioned ==
            IF Len(urls_prefix) > 0
            THEN (IF Len(version) > 1 /\ ~In(version, urls_prefix)
                  THEN rstrip(urls_prefix) \o <<"/">> \o version
                  ELSE urls_prefix)
            ELSE IF Len(version) > 1 THEN version
            ELSE urls_prefix
    IN  IF Len(versioned) > 0 /\ versioned[Len(versioned)] # "/"
        THEN versioned \o <<"/">> ELSE versioned

\* the model builder computes the prefix in its loop over ['pk',
\* primary_key_name], the second time from the result of the first; the
\* resource builder computes it once
UrlPrefixes(kind, api_version, urls_prefix) ==
    LET version == url_api_version(api_version)
        first == UrlsPrefix(version, urls_prefix)
    IN  IF kind = "model" THEN <<first, UrlsPrefix(version, first)>> ELSE <<first>>

ApiVersionInputs == {<<>>, <<"1">>, <<"1", "0">>}
PrefixChars == {"v", "1", "0", "a", "/"}
UrlsPrefixInputs == UNION {[1..n -> PrefixChars] : n \in 0..MaxPrefixLen}

\* get_urls(urls_prefix=...) on a builder made with api_version
Prefix ==
    /\ probe = NoProbe
    /\ \E kind \in {"model", "resource"}, api_version \in ApiVersionInputs,
          urls_prefix \in UrlsPrefixInputs :
          probe' = [fn |-> "urls_prefix", args |-> <<kind, api_version, urls_prefix>>,
                    out |-> UrlPrefixes(kind, api_version, urls_prefix)]
    /\ UNCHANGED model_vars /\ UNCHANGED resource_vars
    /\ UNCHANGED <<log, model_views, events>>

NextFunctions ==
    \/ Route
    \/ Prefix

SpecFunctions == Init /\ [][NextFunctions]_vars

\* the routes of the JSON:API: view type, HTTP method, its name in the action
\* map, action
JsonApiRoutes ==
    {<<"list", "GET", "get", "list">>, <<"list", "POST", "post", "create">>,
     <<"get", "GET", "get", "retrieve">>, <<"get", "PATCH", "patch", "update">>,
     <<"get", "DELETE", "delete", "destroy">>,
     <<"relation", "GET", "get", "retrieve_related">>}

\* C12: get_dict_by_methods maps, for the list view GET->list and POST->create,
\* for the detail view GET->retrieve, PATCH->update and DELETE->destroy, for
\* the related view GET->retrieve_related; an entry is there only if its
\* method is allowed; POST is never routed on a detail view nor PATCH/DELETE
\* on a list view; the map is empty for an unknown view type.
C12_RoutesOnlyAllowed ==
    probe.fn = "get_dict_by_methods" =>
        LET view_type == probe.args[1]
            allowed == Range(probe.args[2])
        IN  /\ probe.out = {<<r[3], r[4]>> :
                              r \in {t \in JsonApiRoutes : t[1] = view_type /\ t[2] \in allowed}}
            /\ view_type = "get" => ~HasKey(probe.out, "post")
            /\ view_type = "list" => ~HasKey(probe.out, "patch") /\ ~HasKey(probe.out, "delete")
            /\ view_type \notin {"get", "list", "relation"} => probe.out = {}

C12_Witness ==
    /\ probe.fn = "get_dict_by_methods"
    /\ probe.args = <<"get", <<"GET", "DELETE">>>>
    /\ probe.out = {<<"get", "retrieve">>, <<"delete", "destroy">>}

(***************************************************************************)
(* The model builder with its keyword options, and the views it generates. *)
(***************************************************************************)
ClassesInputs == {NoneList, List(<<>>), List(<<"IsAuthenticated">>)}

OptionInputs ==
    {[DefaultOptions EXCEPT !.primary_key_name = pk, !.permission_classes = p,
                            !.authentication_classes = a, !.expose_related_views = e] :
        pk \in {"None", "uuid"}, p \in ClassesInputs,
        a \in {NoneList, List(<<"TokenAuthentication">>)}, e \in BOOLEAN}

NextModelViews ==
    \/ \E allowed_methods \in AllowedMethodsInputs, options \in OptionInputs :
          Construct(allowed_methods, options)
    \/ get_urls

SpecModelViews == Init /\ [][NextModelViews]_vars

\* C13: every view class generated for a resource (list view set, detail
\* view set and relationships view, for both primary-key variants) carries
\* the permission_classes and authentication_classes given to the builder,
\* and accepts only HTTP methods that are in allowed_methods, plus head and
\* options.
C13_ViewsCarryPermissions ==
    model_views.built =>
        /\ Len(model_views.classes) = 6
        /\ \A i \in DOMAIN model_views.classes :
              LET class == model_views.classes[i]
              IN  /\ class.permission_classes = Own(builder.permission_classes)
                  /\ class.authentication_classes = Own(builder.authentication_classes)
                  /\ Range(class.http_method_names)
                        \subseteq {HttpName(m) : m \in Range(builder.allowed_methods)}
                                      \cup {"head", "options"}

(***************************************************************************)
(* Either builder and its lifecycle setters.                               *)
(***************************************************************************)
NextCallbacks ==
    \/ \E allowed_methods \in {HTTP_ALL, <<HTTP_GET>>, <<HTTP_POST, INVALID_METHOD>>} :
          Construct(allowed_methods, DefaultOptions)
    \/ before_create
    \/ after_create
    \/ after_get
    \/ before_update
    \/ after_update
    \/ before_delete
    \/ after_delete
    \/ before_list
    \/ after_list
    \/ ConstructResource
    \/ on_create
    \/ on_update
    \/ on_delete
    \/ on_list
    \/ on_get

SpecCallbacks == Init /\ [][NextCallbacks]_vars

ModelSetters ==
    {"before_create", "after_create", "after_get", "before_update", "after_update",
     "before_delete", "after_delete", "before_list", "after_list"}
ResourceSetters == {"on_create", "on_update", "on_delete", "on_list", "on_get"}

\* the HTTP method a lifecycle callback belongs to
LifecycleMethod(op) ==
    IF op \in {"before_create", "after_create", "on_create"} THEN "POST"
    ELSE IF op \in {"before_update", "after_update", "on_update"} THEN "PATCH"
    ELSE IF op \in {"before_delete", "after_delete", "on_delete"} THEN "DELETE"
    ELSE "GET"

\* the callback a builder holds for a setter
CallbackHeld(op) ==
    CASE op = "before_create" -> builder.before_create_callback
      [] op = "after_create" -> builder.after_create_callback
      [] op = "after_get" -> builder.after_get_callback
      [] op = "before_update" -> builder.before_update_callback
      [] op = "after_update" -> builder.after_update_callback
      [] op = "before_delete" -> builder.before_delete_callback
      [] op = "after_delete" -> builder.after_delete_callback
      [] op = "before_list" -> builder.before_list_callback
      [] op = "after_list" -> builder.after_list_callback
      [] op = "on_create" -> resource.on_create_callback
      [] op = "on_update" -> resource.on_update_callback
      [] op = "on_delete" -> resource.on_delete_callback
      [] op = "on_list" -> resource.on_list_callback
      [] op = "on_get" -> resource.on_get_callback

Word(s) == s # <<>> /\ \A i \in DOMAIN s : WordChar(s[i])

\* the text between "filter[" (in any case) and the first "]" of a key, when
\* the key begins that way
HasBrackets(key) ==
    /\ Len(key) > Len(FILTER_PREFIX)
    /\ \A i \in DOMAIN FILTER_PREFIX : Lower(key[i]) = FILTER_PREFIX[i]
    /\ \E j \in (Len(FILTER_PREFIX) + 1)..Len(key) : key[j] = "]"

Bracketed(key) ==
    LET j == CHOOSE j \in (Len(FILTER_PREFIX) + 1)..Len(key) :
                 key[j] = "]" /\ \A i \in (Len(FILTER_PREFIX) + 1)..(j - 1) : key[i] # "]"
    IN  SubSeq(key, Len(FILTER_PREFIX) + 1, j - 1)

\* a key of the form filter[field] or filter[field.op]
FieldOnlyForm(key) == HasBrackets(key) /\ Word(Bracketed(key))
FieldOpForm(key) ==
    /\ HasBrackets(key)
    /\ \E d \in DOMAIN Bracketed(key) :
          /\ Bracketed(key)[d] = "."
          /\ Word(SubSeq(Bracketed(key), 1, d - 1))
          /\ Word(SubSeq(Bracketed(key), d + 1, Len(Bracketed(key))))
FilterForm(key) == FieldOnlyForm(key) \/ FieldOpForm(key)

FormField(key) ==
    IF FieldOnlyForm(key) THEN Bracketed(key)
    ELSE SubSeq(Bracketed(key), 1,
                (CHOOSE d \in DOMAIN Bracketed(key) : Bracketed(key)[d] = ".") - 1)
FormOp(key) ==
    SubSeq(Bracketed(key),
           (CHOOSE d \in DOMAIN Bracketed(key) : Bracketed(key)[d] = ".") + 1,
           Len(Bracketed(key)))

ServedHandler == IF "params" \in DOMAIN request THEN "list" ELSE request.handler

\* {'id': id, 'type': resource name, 'attributes': attributes}
ResourceObjectOf(id, attributes) ==
    [wrapped |-> TRUE, id |-> id, type |-> "res", attributes |-> attributes]

ItemId(item) ==
    IF \E p \in item : p[1] = "id" THEN SomeInt((CHOOSE p \in item : p[1] = "id")[2])
    ELSE NoInt

\* C16: with raw_items left False, every item the on_list callback returns
\* appears in 'data' as {'id': item[unique_identifier] or null, 'type':
\* resource name, 'attributes': item}, and get, create and update responses
\* are wrapped the same way with the identifier of the request (get, update)
\* or of the callback (create); with raw_items=True the items and the data
\* are passed through without that wrapping. 'data' has the callback's items
\* in the callback's order and number.
C16_ResourceObjects ==
    (probe.fn = "json_api_view" /\ response.kind = "response") =>
        LET raw_items == probe.args[3]
            result == request.result
            body == response.body
        IN  CASE ServedHandler = "list" ->
                   /\ Len(body.data) = Len(result.data)
                   /\ \A i \in DOMAIN result.data :
                         body.data[i] = IF raw_items THEN Bare(result.data[i])
                                        ELSE ResourceObjectOf(ItemId(result.data[i]),
                                                              result.data[i])
              [] ServedHandler = "get" ->
                   body = IF raw_items THEN Bare(result.data)
                          ELSE ResourceObjectOf(request.identifier, result.data)
              [] ServedHandler = "update" ->
                   body = IF raw_items THEN [data |-> result.data]
                          ELSE ResourceObjectOf(request.identifier, result.data)
              [] ServedHandler = "create" ->
                   body = IF raw_items THEN [data |-> result.data]
                          ELSE ResourceObjectOf(result.identifier, result.data)
              [] OTHER -> TRUE

\* a list of two items served with the default raw_items, the first item
\* without the identifier key
C16_Witness ==
    /\ probe.fn = "json_api_view" /\ ~probe.args[3]
    /\ response.kind = "response" /\ ServedHandler = "list"
    /\ Len(response.body.data) = 2
    /\ response.body.data[1].id = NoInt /\ response.body.data[2].id = SomeInt(7)

(***************************************************************************)
(* The builder's settings across get_urls(), checked under SpecSerializers.*)
(***************************************************************************)
\* C17: get_urls() is repeatable: after any number of calls the builder's
\* fields, custom fields, relations and generic relations are exactly as the
\* configuration calls left them, so a later call builds its serializers
\* from the same settings as the first.
C17_GetUrlsKeepsSettings ==
    registered.builds > 0 =>
        \A kind \in {"fields", "custom_fields", "relations", "generic_relations"} :
            \A limit \in BOOLEAN :
                ListOf(builder[kind], limit) = ListOf(registered[kind], limit)

(***************************************************************************)
(* The handlers of the model views, lines 373-412 and 438-446.  A request  *)
(* is served by the framework's ModelViewSet, which calls perform_create,  *)
(* perform_update and perform_destroy from its create, update and destroy  *)
(* and is given perform_list as its list.  What a handler calls is kept in *)
(* order, each call with the value it was given and whether it raised; a   *)
(* raise ends the handler.  A queryset or response body is written as the  *)
(* list of what was applied to make it.                                    *)
(***************************************************************************)
Called(call, arg, raised) == [call |-> call, arg |-> arg, raised |-> raised]

\* `if callback is not None: callback(...)`
IfSet(callback, step) == IF callback # "None" THEN <<step>> ELSE <<>>

\* the calls of steps made in order, up to and with the first that raises
RECURSIVE CallsUntilRaise(_, _)
CallsUntilRaise(steps, raises) ==
    IF steps = <<>> THEN <<>>
    ELSE IF Head(steps) = raises THEN <<Called(Head(steps), <<"instance">>, TRUE)>>
    ELSE <<Called(Head(steps), <<"instance">>, FALSE)>>
         \o CallsUntilRaise(Tail(steps), raises)

\* perform_create, lines 373-376
perform_create(self, raises) ==
    CallsUntilRaise(<<"serializer.save">>
                    \o IfSet(self.after_create_callback, "after_create"), raises)

\* a handler that deletes the instance before it calls before_delete
perform_destroy_delete_first(self, raises) ==
    CallsUntilRaise(<<"instance.delete">>
                    \o IfSet(self.before_delete_callback, "before_delete")
                    \o IfSet(self.after_delete_callback, "after_delete"), raises)

\* perform_destroy, lines 378-383
perform_destroy(self, raises) ==
    CallsUntilRaise(IfSet(self.before_delete_callback, "before_delete")
                    \o <<"instance.delete">>
                    \o IfSet(self.after_delete_callback, "after_delete"), raises)

\* perform_update, lines 391-394
perform_update(self, raises) ==
    CallsUntilRaise(<<"serializer.save">>
                    \o IfSet(self.after_update_callback, "after_update"), raises)

\* get_queryset, lines 438-446: self._queryset is never None after __init__
get_queryset(self) ==
    IF self.spice_queryset # "None"
    THEN [calls |-> <<Called("permitted_objects", <<"objects">>, FALSE)>>,
          queryset |-> <<"objects", "permitted_objects">>]
    ELSE [calls |-> <<>>, queryset |-> <<"objects">>]

\* what before_list returns: a queryset made from the one it was given, or
\* another one
Returned(returns, queryset) ==
    IF returns = "given" THEN Append(queryset, "before_list") ELSE <<"other">>

\* a list handler that paginates what the filter backends return and calls
\* before_list afterwards
perform_list_paginate_first(self, inputs) ==
    LET got == get_queryset(self)
        filtered == Append(got.queryset, "filter_queryset")
        queryset == IF self.before_list_callback # "None"
                    THEN Returned(inputs.returns, filtered) ELSE filtered
        page == Append(filtered, "page")
        data == IF inputs.paginated
                THEN Append(Append(page, "serializer.data"), "paginated_response")
                ELSE Append(queryset, "serializer.data")
    IN  [calls |-> got.calls
                   \o <<Called("filter_queryset", got.queryset, FALSE),
                        Called("paginate_queryset", filtered, FALSE)>>
                   \o (IF self.before_list_callback # "None"
                       THEN <<Called("before_list", filtered, FALSE)>> ELSE <<>>)
                   \o <<Called("get_serializer",
                               IF inputs.paginated THEN page ELSE queryset, FALSE)>>
                   \o (IF self.after_list_callback # "None"
                       THEN <<Called("after_list", data, FALSE)>> ELSE <<>>),
         data |-> IF self.after_list_callback # "None" THEN Append(data, "after_list")
                  ELSE data]

\* perform_list, lines 396-412; inputs.paginated is whether paginate_queryset
\* returns a page
perform_list(self, inputs) ==
    LET got == get_queryset(self)
        filtered == Append(got.queryset, "filter_queryset")
        queryset == IF self.before_list_callback # "None"
                    THEN Returned(inputs.returns, filtered) ELSE filtered
        page == Append(queryset, "page")
        data == IF inputs.paginated
                THEN Append(Append(page, "serializer.data"), "paginated_response")
                ELSE Append(queryset, "serializer.data")
    IN  [calls |-> got.calls
                   \o <<Called("filter_queryset", got.queryset, FALSE)>>
                   \o (IF self.before_list_callback # "None"
                       THEN <<Called("before_list", filtered, FALSE)>> ELSE <<>>)
                   \o <<Called("paginate_queryset", queryset, FALSE),
                        Called("get_serializer",
                               IF inputs.paginated THEN page ELSE queryset, FALSE)>>
                   \o (IF self.after_list_callback # "None"
                       THEN <<Called("after_list", data, FALSE)>> ELSE <<>>),
         data |-> IF self.after_list_callback # "None" THEN Append(data, "after_list")
                  ELSE data]

\* the callbacks and the permitted_objects function the builder holds
Configured(self) ==
    {c \in {"after_create", "after_update", "before_delete", "after_delete",
            "before_list", "after_list"} : self[c \o "_callback"] # "None"}
    \cup (IF self.spice_queryset # "None" THEN {"permitted_objects"} ELSE {})

\* the built views route the method to the action
ModelRouted(route, method, action) ==
    /\ model_views.built /\ ~model_views.raised
    /\ \E i \in DOMAIN model_views.urls :
          /\ model_views.urls[i].route = route
          /\ <<method, action>> \in model_views.urls[i].actions

ModelServed(handler, inputs, calls, data) ==
    /\ events' = [served |-> TRUE, handler |-> handler, configured |-> Configured(builder),
                  inputs |-> inputs, trace |-> calls, data |-> data]
    /\ UNCHANGED model_vars /\ UNCHANGED resource_vars
    /\ UNCHANGED <<log, model_views, probe>>

\* POST on the list route
ModelCreateRequest ==
    /\ ~events.served /\ ModelRouted("list", "post", "create")
    /\ \E raises \in {"none", "serializer.save", "after_create"} :
          ModelServed("create", [NoInputs EXCEPT !.raises = raises],
                      perform_create(builder, raises), <<>>)

\* PATCH on the detail route
ModelUpdateRequest ==
    /\ ~events.served /\ ModelRouted("detail", "patch", "update")
    /\ \E raises \in {"none", "serializer.save", "after_update"} :
          ModelServed("update", [NoInputs EXCEPT !.raises = raises],
                      perform_update(builder, raises), <<>>)

\* DELETE on the detail route
ModelDestroyRequest ==
    /\ ~events.served /\ ModelRouted("detail", "delete", "destroy")
    /\ \E raises \in {"none", "before_delete", "instance.delete", "after_delete"} :
          ModelServed("destroy", [NoInputs EXCEPT !.raises = raises],
                      perform_destroy(builder, raises), <<>>)

\* GET on the list route
ModelListRequest ==
    /\ ~events.served /\ ModelRouted("list", "get", "list")
    /\ \E returns \in {"given", "other"}, paginated \in BOOLEAN :
          LET inputs == [NoInputs EXCEPT !.returns = returns, !.paginated = paginated]
          IN  ModelServed("list", inputs, perform_list(builder, inputs).calls,
                          perform_list(builder, inputs).data)

RequestMethodInputs == {HTTP_ALL, <<HTTP_GET, HTTP_DELETE>>}
PermittedObjectsInputs ==
    {DefaultOptions, [DefaultOptions EXCEPT !.permitted_objects = "permitted"]}

NextModelRequests ==
    \/ \E allowed_methods \in RequestMethodInputs, options \in PermittedObjectsInputs :
          Construct(allowed_methods, options)
    \/ after_create
    \/ after_update
    \/ before_delete
    \/ after_delete
    \/ get_urls
    \/ ModelCreateRequest
    \/ ModelUpdateRequest
    \/ ModelDestroyRequest

SpecModelRequests == Init /\ [][NextModelRequests]_vars

\* the same for the list route
NextModelList ==
    \/ \E allowed_methods \in RequestMethodInputs, options \in PermittedObjectsInputs :
          Construct(allowed_methods, options)
    \/ before_list
    \/ after_list
    \/ get_urls
    \/ ModelListRequest

SpecModelList == Init /\ [][NextModelList]_vars

CalledTimes(call) ==
    Cardinality({i \in DOMAIN events.trace : events.trace[i].call = call})
WasCalled(call) == CalledTimes(call) > 0
Completed(call) ==
    \E i \in DOMAIN events.trace : events.trace[i].call = call /\ ~events.trace[i].raised
CalledBefore(a, b) ==
    \A i, j \in DOMAIN events.trace :
        (events.trace[i].call = a /\ events.trace[j].call = b) => i < j
CompletedBefore(a, b) ==
    \A j \in DOMAIN events.trace :
        events.trace[j].call = b =>
            \E i \in 1..(j - 1) : events.trace[i].call = a /\ ~events.trace[i].raised

\* C18: on a delete request the events occur in the order before_delete,
\* instance.delete(), after_delete, each at most once and the callbacks only
\* when configured; if before_delete raises the instance is not deleted and
\* after_delete is not called; after_delete is never called for an instance
\* whose deletion did not complete.  after_create and after_update are
\* called only after serializer.save() has returned.
C18_DeleteOrder ==
    events.served =>
        /\ events.handler = "destroy" =>
              /\ \A c \in {"before_delete", "instance.delete", "after_delete"} :
                    CalledTimes(c) <= 1
              /\ CalledBefore("before_delete", "instance.delete")
              /\ CalledBefore("instance.delete", "after_delete")
              /\ CalledBefore("before_delete", "after_delete")
              /\ \A c \in {"before_delete", "after_delete"} :
                    WasCalled(c) => c \in events.configured
              /\ (WasCalled("before_delete") /\ ~Completed("before_delete"))
                    => ~WasCalled("instance.delete") /\ ~WasCalled("after_delete")
              /\ CompletedBefore("instance.delete", "after_delete")
              /\ events.inputs.raises = "none" =>
                    /\ Completed("instance.delete")
                    /\ \A c \in {"before_delete", "after_delete"} :
                          c \in events.configured => Completed(c)
        /\ events.handler = "create" =>
              /\ CompletedBefore("serializer.save", "after_create")
              /\ WasCalled("after_create") => "after_create" \in events.configured
        /\ events.handler = "update" =>
              /\ CompletedBefore("serializer.save", "after_update")
              /\ WasCalled("after_update") => "after_update" \in events.configured

\* a delete with both callbacks configured in which instance.delete() raises,
\* and one in which all three calls complete
C18_Witness ==
    /\ events.served /\ events.handler = "destroy"
    /\ {"before_delete", "after_delete"} \subseteq events.configured
    /\ Completed("before_delete") /\ Completed("instance.delete")
    /\ Completed("after_delete")

C18_WitnessRaise ==
    /\ events.served /\ events.handler = "destroy"
    /\ {"before_delete", "after_delete"} \subseteq events.configured
    /\ events.inputs.raises = "before_delete" /\ Len(events.trace) = 1

\* the value a call was given, and the result of the calls before a call
ArgOf(call) == (CHOOSE e \in Range(events.trace) : e.call = call).arg
ListOrder ==
    <<"permitted_objects", "filter_queryset", "before_list", "paginate_queryset",
      "get_serializer", "after_list">>
Rank(call) == CHOOSE i \in DOMAIN ListOrder : ListOrder[i] = call

\* the queryset before_list hands back, from the one it is given
BeforeListResult(given) ==
    IF events.inputs.returns = "given" THEN given \o <<"before_list">> ELSE <<"other">>

\* C19: on a list request the steps occur in the order permitted_objects
\* restriction and filter backends, before_list, pagination, serialization,
\* after_list on the response data; pagination and serialization operate on
\* the queryset before_list returned, and after_list is applied exactly once
\* to paginated and to unpaginated responses.
C19_ListOrder ==
    (events.served /\ events.handler = "list") =>
        LET trace == events.trace
            restricted == IF "permitted_objects" \in events.configured
                          THEN <<"objects", "permitted_objects">> ELSE <<"objects">>
            filtered == restricted \o <<"filter_queryset">>
            listed == IF "before_list" \in events.configured
                      THEN BeforeListResult(filtered) ELSE filtered
            serialized == IF events.inputs.paginated
                          THEN listed \o <<"page", "serializer.data", "paginated_response">>
                          ELSE listed \o <<"serializer.data">>
        IN  /\ \A i \in DOMAIN trace : trace[i].call \in Range(ListOrder)
            /\ \A i, j \in DOMAIN trace : i < j => Rank(trace[i].call) < Rank(trace[j].call)
            /\ \A c \in {"filter_queryset", "paginate_queryset", "get_serializer"} :
                  CalledTimes(c) = 1
            /\ \A c \in {"permitted_objects", "before_list", "after_list"} :
                  CalledTimes(c) = (IF c \in events.configured THEN 1 ELSE 0)
            /\ ArgOf("filter_queryset") = restricted
            /\ "before_list" \in events.configured => ArgOf("before_list") = filtered
            /\ ArgOf("paginate_queryset") = listed
            /\ ArgOf("get_serializer")
                  = (IF events.inputs.paginated THEN listed \o <<"page">> ELSE listed)
            /\ "after_list" \in events.configured =>
                  /\ ArgOf("after_list") = serialized
                  /\ events.data = serialized \o <<"after_list">>
            /\ "after_list" \notin events.configured => events.data = serialized

\* a paginated list with permitted_objects and both callbacks, where
\* before_list returns another queryset than the one it was given
C19_Witness ==
    /\ events.served /\ events.handler = "list"
    /\ {"permitted_objects", "before_list", "after_list"} \subseteq events.configured
    /\ events.inputs.paginated /\ events.inputs.returns = "other"
    /\ Len(events.trace) = 6
    /\ events.data = <<"other", "page", "serializer.data", "paginated_response", "after_list">>

(***************************************************************************)
(* The version segment of the URL patterns, checked under SpecFunctions.   *)
(***************************************************************************)
\* segment followed by '/' starts the text or follows a '/'
HasSegment(text, segment) ==
    \E i \in 1..(Len(text) - Len(segment)) :
        /\ SubSeq(text, i, i + Len(segment)) = segment \o <<"/">>
        /\ i = 1 \/ text[i - 1] = "/"

\* C20: for a non-empty api_version every URL pattern, for any urls_prefix,
\* starts with a prefix in which 'v<api_version>' is a whole path segment
\* followed by '/', and a non-empty prefix always ends with '/'; for an
\* empty api_version no version segment is added; both primary-key variants
\* of the model builder get the same prefix.
C20_VersionSegment ==
    probe.fn = "urls_prefix" =>
        LET api_version == probe.args[2]
            urls_prefix == probe.args[3]
        IN  /\ \A i \in DOMAIN probe.out :
                  LET prefix == probe.out[i]
                  IN  /\ api_version # <<>> => HasSegment(prefix, <<"v">> \o api_version)
                      /\ prefix # <<>> => prefix[Len(prefix)] = "/"
                      /\ api_version = <<>> =>
                            prefix = (IF urls_prefix = <<>>
                                         \/ urls_prefix[Len(urls_prefix)] = "/"
                                      THEN urls_prefix ELSE urls_prefix \o <<"/">>)
            /\ \A i, j \in DOMAIN probe.out : probe.out[i] = probe.out[j]

\* what holds for every urls_prefix: the version is a whole segment whenever
\* its text does not occur anywhere in the urls_prefix given
C20_PrefixShape ==
    probe.fn = "urls_prefix" =>
        LET api_version == probe.args[2]
            urls_prefix == probe.args[3]
        IN  /\ \A i \in DOMAIN probe.out :
                  LET prefix == probe.out[i]
                  IN  /\ (api_version # <<>> /\ ~In(<<"v">> \o api_version, urls_prefix))
                            => HasSegment(prefix, <<"v">> \o api_version)
                      /\ prefix # <<>> => prefix[Len(prefix)] = "/"
                      /\ api_version = <<>> =>
                            prefix = (IF urls_prefix = <<>>
                                         \/ urls_prefix[Len(urls_prefix)] = "/"
                                      THEN urls_prefix ELSE urls_prefix \o <<"/">>)
            /\ \A i, j \in DOMAIN probe.out : probe.out[i] = probe.out[j]

(***************************************************************************)
(* The handlers the resource routes name, checked under SpecResource.      *)
(***************************************************************************)
\* C21: for every URL that JsonApiResourceViewBuilder.get_urls() returns,
\* each method -> action entry of the route's action map names a handler
\* that is defined (not None) on the generated view class, and a handler
\* that is invoked always returns a response.
C21_RoutesNameHandlers ==
    /\ (views.built /\ ~views.raised) =>
          \A i \in DOMAIN views.urls :
              \A entry \in views.urls[i].actions : HandlerOf(views, entry[2])
    /\ Served => response.kind = "response"

(***************************************************************************)
(* A model builder with plugins: construction with every plugin list and   *)
(* plugin option, registrations, and get_urls().                           *)
(***************************************************************************)
PluginListInputs ==
    {NoneList, List(<<>>), List(<<DJANGO_SIMPLE_HISTORY>>), List(<<AUTO_ADMIN_VIEWS>>),
     List(<<DJANGO_SIMPLE_HISTORY, AUTO_ADMIN_VIEWS>>)}
PluginOptionsInputs ==
    {NoneDict, Dict({<<AUTO_ADMIN_VIEWS, {}>>}),
     Dict({<<AUTO_ADMIN_VIEWS, {<<ADMIN_PERMISSION_CLASS, "IsAdminUser">>}>>})}
PluginInputs ==
    {[DefaultOptions EXCEPT !.include_plugins = plugins, !.plugin_options = opts,
                            !.permitted_objects = permitted, !.permission_classes = classes] :
        plugins \in PluginListInputs, opts \in PluginOptionsInputs,
        permitted \in {"None", "permitted"},
        classes \in {NoneList, List(<<"IsAuthenticated">>)}}

NextPlugins ==
    \/ \E allowed_methods \in {HTTP_ALL, <<HTTP_GET>>, <<HTTP_POST>>},
          options \in PluginInputs : Construct(allowed_methods, options)
    \/ \E limit \in BOOLEAN : fields(<<"a", "b">>, limit)
    \/ get_urls

SpecPlugins == Init /\ [][NextPlugins]_vars

\* the builds nested in other builds, and the deepest nesting
DerivedBuilds == {i \in DOMAIN model_views.builds : model_views.builds[i].kind # "main"}

\* C22: get_urls() on a model builder terminates for every combination of
\* the history and admin plugins: the derived history and admin builders are
\* built with an empty plugin list, so a derived builder never spawns a
\* further derived builder and the nesting depth of builds is at most one.
C22_DerivedBuildsDoNotNest ==
    outcome.op = "get_urls" =>
        /\ \A i \in DOMAIN model_views.builds :
              /\ ~model_views.builds[i].cut
              /\ model_views.builds[i].depth <= 1
        /\ \A i \in DerivedBuilds :
              /\ model_views.builds[i].include_plugins = {}
              /\ model_views.builds[i].depth = 1
        /\ Cardinality({i \in DerivedBuilds : model_views.builds[i].kind = "history"}) <= 1
        /\ Cardinality({i \in DerivedBuilds : model_views.builds[i].kind = "admin"}) <= 1

\* both plugins, simple_history importable: three builds, two of them derived
C22_Witness ==
    /\ outcome.op = "get_urls" /\ ~outcome.raised
    /\ builder.include_plugins = {DJANGO_SIMPLE_HISTORY, AUTO_ADMIN_VIEWS}
    /\ Len(model_views.builds) = 3
    /\ model_views.builds[2].kind = "history" /\ model_views.builds[3].kind = "admin"

\* the builder a build ran on, as get_urls() left it
BuilderOf(self, made, build) ==
    IF build.ref = 1 THEN self
    ELSE IF build.ref - 1 \in DOMAIN made.copies THEN made.copies[build.ref - 1]
    ELSE NoBuilder

\* the ADMIN_PERMISSION_CLASS option of the admin plugin, if one is given
ConfiguredAdminClass(self) ==
    {q[2] : q \in {q \in UNION {p[2] : p \in {p \in self.plugin_options :
                                                  p[1] = "AUTO_ADMIN_VIEWS"}} :
                       q[1] = "ADMIN_PERMISSION_CLASS"}}

\* _RESOURCE_NAME_TO_SPICE after the builds, each entry written in turn
SpiceRegistry(builds) ==
    LET F[i \in 0..Len(builds)] ==
            IF i = 0 THEN {}
            ELSE {p \in F[i - 1] : \A q \in builds[i].spice : q[1] # p[1]}
                 \cup builds[i].spice
    IN  F[Len(builds)]

GetUrlsStep == outcome'.op = "get_urls" /\ registered'.builds = registered.builds + 1

\* C23: building the admin views leaves the original builder unchanged: its
\* permitted_objects restriction, permission classes, plugin list, is_admin
\* flag, model, queryset and resource name are the same after get_urls() as
\* before, and the non-admin views keep applying permitted_objects; only the
\* admin copy has is_admin set, no permitted_objects restriction, and the
\* configured ADMIN_PERMISSION_CLASS appended to its permission classes.
C23_AdminBuildLeavesBuilder ==
    [][GetUrlsStep =>
          /\ \A f \in {"spice_queryset", "permission_classes", "include_plugins",
                       "is_admin", "model", "queryset", "resource_name"} :
                builder'[f] = builder[f]
          /\ \A i \in DOMAIN model_views'.builds :
                LET build == model_views'.builds[i]
                    ran_on == BuilderOf(builder', model_views', build)
                IN  IF build.kind = "admin"
                    THEN /\ ran_on.is_admin
                         /\ ran_on.spice_queryset = "None"
                         /\ \/ /\ ConfiguredAdminClass(builder) = {}
                               /\ ran_on.permission_classes = builder.permission_classes
                            \/ \E class \in ConfiguredAdminClass(builder) :
                                  ran_on.permission_classes
                                     = Append(builder.permission_classes, class)
                    ELSE /\ ~ran_on.is_admin
                         /\ ran_on.spice_queryset = builder.spice_queryset
                         /\ ran_on.permission_classes = builder.permission_classes
          /\ (builder.spice_queryset # "None" /\ ~outcome'.raised) =>
                <<builder.resource_name, builder.spice_queryset>>
                    \in SpiceRegistry(model_views'.builds)
    ]_vars

\* an admin build for a builder with permitted_objects, a permission class
\* and an ADMIN_PERMISSION_CLASS
C23_Witness ==
    /\ outcome.op = "get_urls" /\ ~outcome.raised
    /\ builder.spice_queryset = "permitted"
    /\ builder.permission_classes = <<"IsAuthenticated">>
    /\ \E i \in DOMAIN model_views.builds :
          /\ model_views.builds[i].kind = "admin"
          /\ BuilderOf(builder, model_views, model_views.builds[i]).permission_classes
                = <<"IsAuthenticated", "IsAdminUser">>
          /\ BuilderOf(builder, model_views, model_views.builds[i]).is_admin

====
